---- MODULE Spec2Model ----
(***************************************************************************)
(* Vantis lending protocol: the risk-engine solvers (partial liquidation,  *)
(* stop-loss swap, volatility-adjusted LTV), the pool's health factor and  *)
(* borrow path, and the borrow-limit policy, modelled from the Rust        *)
(* sources under contracts/.                                               *)
(*                                                                         *)
(* Pure functions are operators that follow the source statement by        *)
(* statement; a call of one is a two-step run: the arguments are chosen in *)
(* the initial state (pc = "call") and the evaluation step stores the      *)
(* result (pc = "return").  The contracts are state machines over their    *)
(* storage entries with one action per entry point.                        *)
(***************************************************************************)
EXTENDS Integers, Sequences, FiniteSets, TLC

VARIABLES
    pc,     \* position of the current call: "idle", "call" or "return"
    op,     \* name of the function or entry point last invoked
    args,   \* its arguments (a record)
    ret,    \* its result
    now,            \* env.ledger().timestamp()
    policyConfig,   \* borrow-limit policy: DataKey::Config(account, rule_id)
    policyUsage,    \* borrow-limit policy: DataKey::Usage(account, rule_id)
    authorised,     \* per key and ledger time, the amount authorised by
                    \* successful enforce calls since the key's
                    \* configuration was last written or removed
    configuredBy,   \* per key, the call that stored the key's configuration:
                    \* "install", "update_config", or "nothing" while no
                    \* configuration is stored
    poolAssets,     \* pool: DataKey::CollateralAssets, a Vec<Address>
    assetConfig,    \* pool: the CollateralConfig stored under each token
    collateral,     \* pool: DataKey::Collateral(user), a Map<asset, amount>
    borrows,        \* pool: DataKey::Borrow(user), a BorrowData
    totalDeposits,  \* pool: DataKey::TotalDeposits(asset)
    totalBorrows,   \* pool: DataKey::TotalBorrows
    poolReserves,   \* pool: DataKey::PoolReserves
    calls,          \* pool: the number of invocations that have succeeded
    oracleAssets,   \* oracle adapter: DataKey::Assets, a Vec<Symbol>
    oraclePrices,   \* oracle adapter: (DataKey::Prices, asset), a PriceData
    oracleVolatility,   \* oracle adapter: (DataKey::Volatility, asset)
    stalenessThreshold, \* oracle adapter: DataKey::StalenessThreshold
    pushed,         \* oracle adapter: per asset, the prices stored by
                    \* successful update_price calls since add_asset
    lastPush,       \* oracle adapter: per asset, the price and the ledger
                    \* time of the latest successful update_price
    riskAdmin,      \* risk engine: DataKey::Admin, NoAdmin while not stored
    stopLossConfig, \* risk engine: DataKey::StopLoss(user)
    lastEnabled,    \* per user, the configuration of the latest successful
                    \* enable_stop_loss that no disable_stop_loss followed
    blendAdmin,     \* blend adapter: DataKey::Admin
    blendPool,      \* blend adapter: DataKey::BlendPool
    assetIndex,     \* blend adapter: DataKey::AssetIndex(asset)
    poolAdmin,      \* pool: DataKey::Admin
    firstAdmin      \* per contract, the admin passed to the first initialize

callVars == <<pc, op, args, ret>>

policyVars == <<policyConfig, policyUsage, authorised, configuredBy>>

poolVars == <<poolAssets, assetConfig, collateral, borrows, totalDeposits,
              totalBorrows, poolReserves, calls>>

oracleVars == <<oracleAssets, oraclePrices, oracleVolatility,
                stalenessThreshold, pushed, lastPush>>

riskVars == <<riskAdmin, stopLossConfig, lastEnabled>>

blendVars == <<blendAdmin, blendPool, assetIndex>>

initVars == <<poolAdmin, firstAdmin>>

extVars == <<riskVars, blendVars, initVars>>

vars == <<pc, op, args, ret, now, policyConfig, policyUsage, authorised,
          configuredBy,
          poolAssets, assetConfig, collateral, borrows, totalDeposits,
          totalBorrows, poolReserves, calls,
          oracleAssets, oraclePrices, oracleVolatility, stalenessThreshold,
          pushed, lastPush,
          riskAdmin, stopLossConfig, lastEnabled,
          blendAdmin, blendPool, assetIndex, poolAdmin, firstAdmin>>

----------------------------------------------------------------------------
(* Rust integer arithmetic                                                 *)

\* i128 `/`: the quotient truncates toward zero (TLA+ \div rounds down).
\* A zero divisor aborts the call in Rust; here it stops the evaluation.
TDiv(a, b) ==
    LET q == (IF a < 0 THEN -a ELSE a) \div (IF b < 0 THEN -b ELSE b)
    IN IF (a < 0) = (b < 0) THEN q ELSE -q

\* Ord::min / Ord::max on i128
Min(a, b) == IF a <= b THEN a ELSE b

Max(a, b) == IF a >= b THEN a ELSE b

\* `x as u32` of an i128.  The cast is the identity on 0 .. 2^32 - 1; a
\* negative x would wrap to 2^32 + x, which no evaluation here may reach:
\* the choice from the empty set stops the evaluation if one does.
AsU32(x) == IF x >= 0 THEN x ELSE CHOOSE wrapped \in {} : TRUE

----------------------------------------------------------------------------
(* Bounds of the explored inputs                                           *)

\* collateral and debt values: 0..MaxAmount in single units (where the
\* truncation of the divisions shows) and in steps of 50 (positions of the
\* size the tests use, such as 950 against 1000)
MaxAmount == 24

Amounts == (0..MaxAmount) \cup {50 * k : k \in 0..MaxAmount}

\* liquidation penalties (bp) and target health factors (bp) tried
Penalties == {0, 250, 500, 1000}

Targets == {10000, 10500, 11000}

----------------------------------------------------------------------------
(* vantis-pool/src/lib.rs                                                  *)

\* i128::MAX, the value of a health factor without debt.  It stands for
\* 2^127 - 1 as the largest integer TLC represents; every other
\* quantity of the model is far below it, so the comparisons agree.
I128_MAX == 2147483647

Users == {"alice", "bob"}

Tokens == {"XLM", "BTC"}

PoolAdmin == "admin"

\* the CollateralConfig each token is added with (the tests' XLM
\* configuration, and a second asset with lower factors)
ConfigFor(token) ==
    IF token = "XLM"
    THEN [present |-> TRUE, collateral_factor |-> 7500,
          liquidation_threshold |-> 8000, liquidation_penalty |-> 500]
    ELSE [present |-> TRUE, collateral_factor |-> 5000,
          liquidation_threshold |-> 6500, liquidation_penalty |-> 1000]

NoAssetConfig ==
    [present |-> FALSE, collateral_factor |-> 0, liquidation_threshold |-> 0,
     liquidation_penalty |-> 0]

\* the InterestRateParams given to initialize (the tests' values)
InterestParams ==
    [base_rate |-> 200, slope1 |-> 400, slope2 |-> 7500,
     optimal_utilization |-> 8000]

SECONDS_PER_YEAR == 31536000

\* BorrowData::default(), and an absent entry
NoBorrow ==
    [present |-> FALSE, principal |-> 0, accrued_interest |-> 0,
     last_accrual |-> 0]

\* bounds of the pool runs: entries of the asset list, the balance one user
\* holds of one asset, the reserves, the ledger time in half years, and the
\* number of successful invocations
MaxAssetList == 2

MaxBalance == 1000

MaxReserves == 1000

MaxHalfYears == 2

MaxCalls == 6

DepositAmounts == {1000}

WithdrawAmounts == {600, 1000}

BorrowAmounts == {300}

RepayAmounts == {5, 300}

SupplyAmounts == {1000}

PoolTimeSteps == {SECONDS_PER_YEAR \div 2}

RECURSIVE MulDivMod(_, _, _)
\* <<q, r>> with a * b = q * c + r and 0 <= r < c, for a, b >= 0 and c > 0.
\* The contract multiplies and divides in i128; the products exceed the
\* integers of TLC, so the quotient is computed by halving b.
MulDivMod(a, b, c) ==
    IF b = 0 THEN <<0, 0>>
    ELSE LET h == MulDivMod(a, b \div 2, c)
             r2 == 2 * h[2]
             q2 == 2 * h[1] + (r2 \div c)
             rr == r2 % c
         IN IF b % 2 = 0 THEN <<q2, rr>>
            ELSE LET r3 == rr + (a % c)
                 IN <<q2 + (a \div c) + (r3 \div c), r3 % c>>

RECURSIVE SumOver(_, _)
\* the sum of f[x] over the elements x of S
SumOver(S, f) ==
    IF S = {} THEN 0
    ELSE LET x == CHOOSE y \in S : TRUE IN f[x] + SumOver(S \ {x}, f)

\* borrow.rs, calculate_interest_rate without the slope1 step above the kink
calculate_interest_rate_NoJump(utilization, base_rate, slope1, slope2, optimal_utilization) ==
    IF utilization <= optimal_utilization
    THEN IF optimal_utilization = 0 THEN <<"Panic", 0>>
         ELSE <<"Ok", base_rate
                        + TDiv(utilization * slope1, optimal_utilization)>>
    ELSE LET excess == utilization - optimal_utilization
             remaining == AsU32(10000 - optimal_utilization)
         IN IF remaining = 0 THEN <<"Panic", 0>>
            ELSE <<"Ok", base_rate + TDiv(excess * slope2, remaining)>>

\* borrow.rs, calculate_interest_rate: <<"Ok", rate>>, or <<"Panic", 0>> when
\* the u32 division has a zero divisor
calculate_interest_rate(utilization, base_rate, slope1, slope2, optimal_utilization) ==
    IF utilization <= optimal_utilization
    THEN IF optimal_utilization = 0 THEN <<"Panic", 0>>
         ELSE <<"Ok", base_rate
                        + TDiv(utilization * slope1, optimal_utilization)>>
    ELSE LET rate_at_optimal == base_rate + slope1
             excess == utilization - optimal_utilization
             remaining == AsU32(10000 - optimal_utilization)
         IN IF remaining = 0 THEN <<"Panic", 0>>
            ELSE <<"Ok", rate_at_optimal + TDiv(excess * slope2, remaining)>>

\* get_current_interest_rate with the given InterestParams, PoolReserves and
\* TotalBorrows in storage: <<"Ok", rate>>, or <<"Panic", 0>> when the u32
\* division has a zero divisor
CurrentInterestRate(params, reserves, total_borrows) ==
    LET total_liquidity == reserves + total_borrows IN
    IF total_liquidity = 0 THEN <<"Ok", params.base_rate>>
    ELSE LET utilization ==
                AsU32(TDiv(total_borrows * 10000, total_liquidity))
         IN IF utilization <= params.optimal_utilization
            THEN IF params.optimal_utilization = 0 THEN <<"Panic", 0>>
                 ELSE <<"Ok", params.base_rate
                                + TDiv(utilization * params.slope1,
                                       params.optimal_utilization)>>
            ELSE LET excess == utilization - params.optimal_utilization
                     remaining == AsU32(10000 - params.optimal_utilization)
                 IN IF remaining = 0 THEN <<"Panic", 0>>
                    ELSE <<"Ok", params.base_rate + params.slope1
                                   + TDiv(excess * params.slope2, remaining)>>

\* get_current_interest_rate in the pool's current state (the parameters
\* stored at initialize have optimal_utilization 8000: no zero divisor)
get_current_interest_rate ==
    CurrentInterestRate(InterestParams, poolReserves, totalBorrows)[2]

\* the same quotient rounded up instead of truncated
InterestFor_RoundedUp(principal, interest_rate, time_elapsed) ==
    LET qr == MulDivMod(principal * interest_rate, time_elapsed,
                        SECONDS_PER_YEAR)
    IN (qr[1] \div 10000)
         + (IF qr[1] % 10000 # 0 \/ qr[2] # 0 THEN 1 ELSE 0)

\* principal * rate * time_elapsed / (seconds_per_year * 10000), truncated
InterestFor(principal, interest_rate, time_elapsed) ==
    LET m == principal * interest_rate
        mag == MulDivMod(IF m < 0 THEN -m ELSE m, time_elapsed,
                         SECONDS_PER_YEAR)[1] \div 10000
    IN IF m < 0 THEN -mag ELSE mag

\* accrue_interest: the BorrowData it leaves in storage for the user
accrue_interest(user) ==
    LET borrow_data == borrows[user] IN
    IF borrow_data.principal = 0 THEN borrow_data
    ELSE LET time_elapsed == now - borrow_data.last_accrual IN
         IF time_elapsed = 0 THEN borrow_data
         ELSE LET interest == InterestFor(borrow_data.principal,
                                          get_current_interest_rate,
                                          time_elapsed)
              IN [borrow_data EXCEPT
                    !.present = TRUE,
                    !.accrued_interest = @ + interest,
                    !.last_accrual = now]

\* get_borrow_capacity, the loop: the summed collateral values of the user
TotalCapacity(user) ==
    SumOver(Tokens,
            [a \in Tokens |->
                TDiv(collateral[user][a] * assetConfig[a].collateral_factor,
                     10000)])

\* get_borrow_capacity, with the given BorrowData in storage
get_borrow_capacity(user, borrow_data) ==
    LET total_capacity == TotalCapacity(user)
        current_debt == borrow_data.principal + borrow_data.accrued_interest
        available == total_capacity - current_debt
    IN IF available > 0 THEN available ELSE 0

\* calculate_health_factor returning 0, not the sentinel, without debt
calculate_health_factor_NoSentinel(user, user_collateral) ==
    LET total_collateral_value ==
            SumOver(Tokens,
                    [a \in Tokens |->
                        TDiv(user_collateral[a] * assetConfig[a].liquidation_threshold,
                             10000)])
        total_debt == borrows[user].principal + borrows[user].accrued_interest
    IN IF total_debt = 0 THEN 0
       ELSE TDiv(total_collateral_value * 10000, total_debt)

\* calculate_health_factor, with the given collateral map of the user
calculate_health_factor(user, user_collateral) ==
    LET total_collateral_value ==
            SumOver(Tokens,
                    [a \in Tokens |->
                        TDiv(user_collateral[a] * assetConfig[a].liquidation_threshold,
                             10000)])
        total_debt == borrows[user].principal + borrows[user].accrued_interest
    IN IF total_debt = 0 THEN I128_MAX
       ELSE TDiv(total_collateral_value * 10000, total_debt)

\* require_asset_supported
AssetSupported(asset) == \E i \in 1..Len(poolAssets) : poolAssets[i] = asset

PoolInit ==
    /\ poolAssets = <<>>
    /\ assetConfig = [a \in Tokens |-> NoAssetConfig]
    /\ collateral = [u \in Users |-> [a \in Tokens |-> 0]]
    /\ borrows = [u \in Users |-> NoBorrow]
    /\ totalDeposits = [a \in Tokens |-> 0]
    /\ totalBorrows = 0
    /\ poolReserves = 0
    /\ calls = 0

\* a call that returns an error: storage is as before the call
PoolFails(name, arguments, error) ==
    /\ op' = name
    /\ args' = arguments
    /\ ret' = error
    /\ pc' = "return"
    /\ UNCHANGED <<now, policyVars, poolVars, oracleVars, extVars>>

\* a call that returns Ok(())
PoolReturns(name, arguments) ==
    /\ op' = name
    /\ args' = arguments
    /\ ret' = "Ok"
    /\ pc' = "return"
    /\ calls < MaxCalls
    /\ calls' = calls + 1
    /\ UNCHANGED <<now, policyVars, oracleVars, extVars>>

add_collateral_asset(caller, token) ==
    LET arguments == [caller |-> caller, token |-> token] IN
    IF caller # PoolAdmin
    THEN PoolFails("add_collateral_asset", arguments, "Unauthorized")
    ELSE /\ Len(poolAssets) < MaxAssetList
         /\ PoolReturns("add_collateral_asset", arguments)
         /\ poolAssets' = Append(poolAssets, token)
         /\ assetConfig' = [assetConfig EXCEPT ![token] = ConfigFor(token)]
         /\ totalDeposits' = [totalDeposits EXCEPT ![token] = 0]
         /\ UNCHANGED <<collateral, borrows, totalBorrows, poolReserves>>

deposit(user, asset, amount) ==
    LET arguments == [user |-> user, asset |-> asset, amount |-> amount] IN
    IF amount <= 0 THEN PoolFails("deposit", arguments, "InvalidAmount")
    ELSE IF ~AssetSupported(asset)
    THEN PoolFails("deposit", arguments, "AssetNotSupported")
    ELSE /\ collateral[user][asset] + amount <= MaxBalance
         /\ PoolReturns("deposit", arguments)
         /\ collateral' = [collateral EXCEPT ![user][asset] = @ + amount]
         /\ totalDeposits' = [totalDeposits EXCEPT ![asset] = @ + amount]
         /\ UNCHANGED <<poolAssets, assetConfig, borrows, totalBorrows,
                        poolReserves>>

\* withdraw that leaves the temporarily stored collateral in place when the
\* health check fails
withdraw_NoRevert(user, asset, amount) ==
    LET arguments == [user |-> user, asset |-> asset, amount |-> amount]
        current == collateral[user][asset]
    IN
    IF amount <= 0 THEN PoolFails("withdraw", arguments, "InvalidAmount")
    ELSE IF current < amount
    THEN PoolFails("withdraw", arguments, "InsufficientCollateral")
    ELSE LET new_amount == current - amount
             user_collateral == [collateral[user] EXCEPT ![asset] = new_amount]
             health_factor == calculate_health_factor(user, user_collateral)
         IN IF health_factor < 10000
            THEN /\ op' = "withdraw"
                 /\ args' = arguments
                 /\ ret' = "WithdrawalWouldLiquidate"
                 /\ pc' = "return"
                 /\ collateral' = [collateral EXCEPT ![user] = user_collateral]
                 /\ UNCHANGED <<poolAssets, assetConfig, borrows, totalBorrows,
                                poolReserves, totalDeposits, calls>>
                 /\ UNCHANGED <<now, policyVars, oracleVars, extVars>>
            ELSE /\ PoolReturns("withdraw", arguments)
                 /\ collateral' = [collateral EXCEPT ![user] = user_collateral]
                 /\ totalDeposits' = [totalDeposits EXCEPT ![asset] = @ - amount]
                 /\ UNCHANGED <<poolAssets, assetConfig, borrows, totalBorrows,
                                poolReserves>>

withdraw(user, asset, amount) ==
    LET arguments == [user |-> user, asset |-> asset, amount |-> amount]
        current == collateral[user][asset]
    IN
    IF amount <= 0 THEN PoolFails("withdraw", arguments, "InvalidAmount")
    ELSE IF current < amount
    THEN PoolFails("withdraw", arguments, "InsufficientCollateral")
    ELSE LET new_amount == current - amount
             user_collateral == [collateral[user] EXCEPT ![asset] = new_amount]
             health_factor == calculate_health_factor(user, user_collateral)
         IN IF health_factor < 10000
            THEN PoolFails("withdraw", arguments, "WithdrawalWouldLiquidate")
            ELSE /\ PoolReturns("withdraw", arguments)
                 /\ collateral' = [collateral EXCEPT ![user] = user_collateral]
                 /\ totalDeposits' = [totalDeposits EXCEPT ![asset] = @ - amount]
                 /\ UNCHANGED <<poolAssets, assetConfig, borrows, totalBorrows,
                                poolReserves>>

borrow(user, amount) ==
    LET arguments == [user |-> user, amount |-> amount] IN
    IF amount <= 0 THEN PoolFails("borrow", arguments, "InvalidAmount")
    ELSE LET accrued == accrue_interest(user)
             reserves == poolReserves
         IN IF reserves < amount
            THEN PoolFails("borrow", arguments, "InsufficientLiquidity")
            ELSE LET borrow_capacity == get_borrow_capacity(user, accrued)
                     total_debt == accrued.principal + accrued.accrued_interest
                 IN IF total_debt + amount > borrow_capacity
                    THEN PoolFails("borrow", arguments, "InsufficientCollateral")
                    ELSE /\ PoolReturns("borrow", arguments)
                         /\ borrows' = [borrows EXCEPT ![user] =
                                [present |-> TRUE,
                                 principal |-> accrued.principal + amount,
                                 accrued_interest |-> accrued.accrued_interest,
                                 last_accrual |-> now]]
                         /\ poolReserves' = reserves - amount
                         /\ totalBorrows' = totalBorrows + amount
                         /\ UNCHANGED <<poolAssets, assetConfig, collateral,
                                        totalDeposits>>

\* the repayment taken from the principal before the interest
ApplyRepayment_PrincipalFirst(borrow_data, repay_amount) ==
    IF repay_amount <= borrow_data.principal
    THEN [borrow_data EXCEPT !.principal = @ - repay_amount]
    ELSE [borrow_data EXCEPT
            !.principal = 0,
            !.accrued_interest = @ - (repay_amount - borrow_data.principal)]

\* repay, "apply repayment: first to interest, then to principal"
ApplyRepayment(borrow_data, repay_amount) ==
    IF repay_amount <= borrow_data.accrued_interest
    THEN [borrow_data EXCEPT !.accrued_interest = @ - repay_amount]
    ELSE [borrow_data EXCEPT
            !.accrued_interest = 0,
            !.principal = @ - (repay_amount - borrow_data.accrued_interest)]

repay(user, amount) ==
    LET arguments == [user |-> user, amount |-> amount] IN
    IF amount <= 0 THEN PoolFails("repay", arguments, "InvalidAmount")
    ELSE LET accrued == accrue_interest(user)
             total_debt == accrued.principal + accrued.accrued_interest
         IN IF ~accrued.present \/ total_debt = 0
            THEN PoolFails("repay", arguments, "NoBorrowPosition")
            ELSE LET repay_amount == IF amount > total_debt THEN total_debt
                                     ELSE amount
                     applied == ApplyRepayment(accrued, repay_amount)
                 IN /\ PoolReturns("repay", arguments)
                    /\ borrows' = [borrows EXCEPT ![user] =
                                     [applied EXCEPT !.last_accrual = now]]
                    /\ poolReserves' = poolReserves + repay_amount
                    /\ totalBorrows' = totalBorrows - repay_amount
                    /\ UNCHANGED <<poolAssets, assetConfig, collateral,
                                   totalDeposits>>

supply(supplier, amount) ==
    LET arguments == [supplier |-> supplier, amount |-> amount] IN
    IF amount <= 0 THEN PoolFails("supply", arguments, "InvalidAmount")
    ELSE /\ poolReserves + amount <= MaxReserves
         /\ PoolReturns("supply", arguments)
         /\ poolReserves' = poolReserves + amount
         /\ UNCHANGED <<poolAssets, assetConfig, collateral, borrows,
                        totalDeposits, totalBorrows>>

\* the ledger closes: the timestamp moves on
PoolAdvanceTime ==
    /\ \E dt \in PoolTimeSteps :
          /\ now + dt <= MaxHalfYears * (SECONDS_PER_YEAR \div 2)
          /\ now' = now + dt
    /\ UNCHANGED <<callVars, policyVars, poolVars, oracleVars, extVars>>

----------------------------------------------------------------------------
(* oracle-adapter/src/lib.rs: storage                                      *)

OracleSymbols == {"XLM", "BTC"}

OracleAdmin == "admin"

\* the threshold initialize stores
DEFAULT_STALENESS == 3600

\* an absent PriceData entry
NoPrice == [present |-> FALSE, price |-> 0, timestamp |-> 0]

\* an absent VolatilityData entry
NoVolatility ==
    [present |-> FALSE, volatility_30d |-> 0, volatility_7d |-> 0,
     last_updated |-> 0, price_history |-> <<>>]

\* the VolatilityData add_asset stores
FreshVolatility ==
    [present |-> TRUE, volatility_30d |-> 0, volatility_7d |-> 0,
     last_updated |-> 0, price_history |-> <<>>]

OracleInit ==
    /\ oracleAssets = <<>>
    /\ oraclePrices = [a \in OracleSymbols |-> NoPrice]
    /\ oracleVolatility = [a \in OracleSymbols |-> NoVolatility]
    /\ stalenessThreshold = DEFAULT_STALENESS
    /\ pushed = [a \in OracleSymbols |-> <<>>]
    /\ lastPush = [a \in OracleSymbols |-> NoPrice]

----------------------------------------------------------------------------
(* risk-engine/src/lib.rs: stop-loss configuration                         *)

\* no address stored under DataKey::Admin
NoAdmin == "none"

\* the addresses that call initialize and the admin entry points
AdminCallers == {"admin", "stranger"}

\* the contracts with an initialize entry point that are followed here
InitializedContracts == {"blend-adapter", "risk-engine", "vantis-pool"}

StopLossUsers == {"alice", "bob"}

\* an absent DataKey::StopLoss entry: get_stop_loss_config returns None
NoStopLoss ==
    [present |-> FALSE, enabled |-> FALSE, custom_threshold |-> 0,
     swap_priority |-> <<>>, max_slippage |-> 0]

\* UserStopLossConfig values tried: max_slippage at, below and above 1000
StopLossConfigs ==
    [enabled : BOOLEAN, custom_threshold : {0, 10300},
     swap_priority : {<<>>}, max_slippage : {100, 1000, 1001}]
        \cup {[enabled |-> TRUE, custom_threshold |-> 10300,
               swap_priority |-> <<"XLM">>, max_slippage |-> 5000]}

\* Some(config) as it is stored
StoredStopLoss(config) ==
    [present |-> TRUE, enabled |-> config.enabled,
     custom_threshold |-> config.custom_threshold,
     swap_priority |-> config.swap_priority,
     max_slippage |-> config.max_slippage]

\* enable_stop_loss that stores the configuration before it validates it
enable_stop_loss_StoreFirst(user, config, authorized) ==
    /\ op' = "enable_stop_loss"
    /\ args' = [user |-> user, config |-> config, authorized |-> authorized]
    /\ pc' = "return"
    /\ IF ~authorized
       THEN /\ ret' = "Panic"
            /\ UNCHANGED <<stopLossConfig, lastEnabled>>
       ELSE /\ stopLossConfig' =
                  [stopLossConfig EXCEPT ![user] = StoredStopLoss(config)]
            /\ IF config.max_slippage > 1000
               THEN /\ ret' = "InvalidParams"
                    /\ UNCHANGED lastEnabled
               ELSE /\ ret' = "Ok"
                    /\ lastEnabled' =
                          [lastEnabled EXCEPT ![user] = StoredStopLoss(config)]
    /\ UNCHANGED <<now, policyVars, poolVars, oracleVars, riskAdmin,
                   blendVars, initVars>>

\* `authorized` is whether user.require_auth() passes; a call it rejects is
\* aborted by the host
enable_stop_loss(user, config, authorized) ==
    /\ op' = "enable_stop_loss"
    /\ args' = [user |-> user, config |-> config, authorized |-> authorized]
    /\ pc' = "return"
    /\ IF ~authorized
       THEN /\ ret' = "Panic"
            /\ UNCHANGED <<stopLossConfig, lastEnabled>>
       ELSE IF config.max_slippage > 1000
       THEN /\ ret' = "InvalidParams"
            /\ UNCHANGED <<stopLossConfig, lastEnabled>>
       ELSE /\ ret' = "Ok"
            /\ stopLossConfig' =
                  [stopLossConfig EXCEPT ![user] = StoredStopLoss(config)]
            /\ lastEnabled' =
                  [lastEnabled EXCEPT ![user] = StoredStopLoss(config)]
    /\ UNCHANGED <<now, policyVars, poolVars, oracleVars, riskAdmin,
                   blendVars, initVars>>

disable_stop_loss(user, authorized) ==
    /\ op' = "disable_stop_loss"
    /\ args' = [user |-> user, authorized |-> authorized]
    /\ pc' = "return"
    /\ IF ~authorized
       THEN /\ ret' = "Panic"
            /\ UNCHANGED <<stopLossConfig, lastEnabled>>
       ELSE /\ ret' = "Ok"
            /\ stopLossConfig' = [stopLossConfig EXCEPT ![user] = NoStopLoss]
            /\ lastEnabled' = [lastEnabled EXCEPT ![user] = NoStopLoss]
    /\ UNCHANGED <<now, policyVars, poolVars, oracleVars, riskAdmin,
                   blendVars, initVars>>

get_stop_loss_config(user) ==
    /\ op' = "get_stop_loss_config"
    /\ args' = [user |-> user]
    /\ pc' = "return"
    /\ ret' = stopLossConfig[user]
    /\ UNCHANGED <<now, policyVars, poolVars, oracleVars, extVars>>

\* the stop-loss storage of a risk engine nobody has called yet
StopLossInit ==
    /\ stopLossConfig = [u \in StopLossUsers |-> NoStopLoss]
    /\ lastEnabled = [u \in StopLossUsers |-> NoStopLoss]

----------------------------------------------------------------------------
(* blend-adapter/src/lib.rs                                                *)

\* the collateral tokens offered to register_asset
BlendAssets == {"XLM", "USDC"}

\* reserve indices offered to register_asset
ReserveIndices == {0, 1}

\* Blend pool contract addresses
BlendPools == {"blend-pool-1", "blend-pool-2"}

\* no address stored under DataKey::BlendPool
NoBlendPool == "none"

\* an absent DataKey::AssetIndex entry
NoAssetIndex == [present |-> FALSE, index |-> 0]

\* require_admin: the stored admin is unwrapped, then compared to the caller
BlendRequireAdmin(caller) ==
    IF blendAdmin = NoAdmin THEN "Panic"
    ELSE IF caller # blendAdmin THEN "Unauthorized"
    ELSE "Ok"

\* a blend adapter entry point returns `result` and writes what the caller
\* of this operator says it writes
BlendCall(name, arguments, result) ==
    /\ op' = name
    /\ args' = arguments
    /\ ret' = result
    /\ pc' = "return"
    /\ UNCHANGED <<now, policyVars, poolVars, oracleVars, riskVars>>

\* initialize; the Oracle and UsdcToken entries it stores are read by no
\* entry point followed here
BlendAdapter_initialize(admin, blend_pool) ==
    LET arguments == [contract |-> "blend-adapter", admin |-> admin,
                      blend_pool |-> blend_pool] IN
    IF blendAdmin # NoAdmin
    THEN /\ BlendCall("initialize", arguments, "Panic: Already initialized")
         /\ UNCHANGED <<blendVars, initVars>>
    ELSE /\ BlendCall("initialize", arguments, "Ok")
         /\ blendAdmin' = admin
         /\ blendPool' = blend_pool
         /\ firstAdmin' = [firstAdmin EXCEPT !["blend-adapter"] = admin]
         /\ UNCHANGED <<assetIndex, poolAdmin>>

\* register_asset without the require_admin check
register_asset_AnyCaller(caller, asset, reserve_index) ==
    LET arguments == [caller |-> caller, asset |-> asset,
                      reserve_index |-> reserve_index] IN
    IF blendAdmin = NoAdmin
    THEN /\ BlendCall("register_asset", arguments, "Panic")
         /\ UNCHANGED <<blendVars, initVars>>
    ELSE /\ BlendCall("register_asset", arguments, "Ok")
         /\ assetIndex' = [assetIndex EXCEPT ![asset] =
                              [present |-> TRUE, index |-> reserve_index]]
         /\ UNCHANGED <<blendAdmin, blendPool, initVars>>

register_asset(caller, asset, reserve_index) ==
    LET arguments == [caller |-> caller, asset |-> asset,
                      reserve_index |-> reserve_index]
        allowed == BlendRequireAdmin(caller)
    IN IF allowed # "Ok"
       THEN /\ BlendCall("register_asset", arguments, allowed)
            /\ UNCHANGED <<blendVars, initVars>>
       ELSE /\ BlendCall("register_asset", arguments, "Ok")
            /\ assetIndex' = [assetIndex EXCEPT ![asset] =
                                 [present |-> TRUE, index |-> reserve_index]]
            /\ UNCHANGED <<blendAdmin, blendPool, initVars>>

set_blend_pool(caller, blend_pool) ==
    LET arguments == [caller |-> caller, blend_pool |-> blend_pool]
        allowed == BlendRequireAdmin(caller)
    IN IF allowed # "Ok"
       THEN /\ BlendCall("set_blend_pool", arguments, allowed)
            /\ UNCHANGED <<blendVars, initVars>>
       ELSE /\ BlendCall("set_blend_pool", arguments, "Ok")
            /\ blendPool' = blend_pool
            /\ UNCHANGED <<blendAdmin, assetIndex, initVars>>

\* the blend adapter nobody has initialized yet
BlendInit ==
    /\ blendAdmin = NoAdmin
    /\ blendPool = NoBlendPool
    /\ assetIndex = [a \in BlendAssets |-> NoAssetIndex]

----------------------------------------------------------------------------
(* initialize of risk-engine/src/lib.rs and of vantis-pool/src/lib.rs      *)

\* the Oracle, Pool, BlendAdapter, UsdcToken, RiskParams and Liquidators
\* entries initialize stores are read by no entry point followed here
RiskEngine_initialize(admin) ==
    /\ op' = "initialize"
    /\ args' = [contract |-> "risk-engine", admin |-> admin]
    /\ pc' = "return"
    /\ IF riskAdmin # NoAdmin
       THEN /\ ret' = "Panic: Already initialized"
            /\ UNCHANGED <<riskAdmin, firstAdmin>>
       ELSE /\ ret' = "Ok"
            /\ riskAdmin' = admin
            /\ firstAdmin' = [firstAdmin EXCEPT !["risk-engine"] = admin]
    /\ UNCHANGED <<now, policyVars, poolVars, oracleVars, stopLossConfig,
                   lastEnabled, blendVars, poolAdmin>>

\* the pool's initialize without the `has(&DataKey::Admin)` guard
VantisPool_initialize_Unguarded(admin) ==
    /\ op' = "initialize"
    /\ args' = [contract |-> "vantis-pool", admin |-> admin]
    /\ pc' = "return"
    /\ ret' = "Ok"
    /\ poolAdmin' = admin
    /\ firstAdmin' = [firstAdmin EXCEPT
                        !["vantis-pool"] = IF @ = NoAdmin THEN admin ELSE @]
    /\ totalBorrows' = 0
    /\ poolReserves' = 0
    /\ poolAssets' = <<>>
    /\ UNCHANGED <<assetConfig, collateral, borrows, totalDeposits, calls>>
    /\ UNCHANGED <<now, policyVars, oracleVars, riskVars, blendVars>>

\* initialize stores the admin and sets TotalBorrows, PoolReserves and the
\* list of collateral assets to their empty values
VantisPool_initialize(admin) ==
    /\ op' = "initialize"
    /\ args' = [contract |-> "vantis-pool", admin |-> admin]
    /\ pc' = "return"
    /\ IF poolAdmin # NoAdmin
       THEN /\ ret' = "Panic: Already initialized"
            /\ UNCHANGED <<poolVars, poolAdmin, firstAdmin>>
       ELSE /\ ret' = "Ok"
            /\ poolAdmin' = admin
            /\ firstAdmin' = [firstAdmin EXCEPT !["vantis-pool"] = admin]
            /\ totalBorrows' = 0
            /\ poolReserves' = 0
            /\ poolAssets' = <<>>
            /\ UNCHANGED <<assetConfig, collateral, borrows, totalDeposits,
                           calls>>
    /\ UNCHANGED <<now, policyVars, oracleVars, riskVars, blendVars>>

\* supply reads DataKey::XlmToken, which initialize stores, and unwraps it
SupplyOnceInitialized(supplier, amount) ==
    IF amount > 0 /\ poolAdmin = NoAdmin
    THEN PoolFails("supply", [supplier |-> supplier, amount |-> amount],
                   "Panic")
    ELSE supply(supplier, amount)

----------------------------------------------------------------------------
(* policies/borrow-limit/src/lib.rs                                        *)

\* ledger timestamps run over 0..MaxTime
MaxTime == 4

\* borrow amounts passed to the policy range over 0..MaxBorrow
MaxBorrow == 3

\* the (account, rule_id) pairs the policy is installed for
PolicyKeys == {"account1/rule1"}

\* callers of the admin entry point
PolicyAdmin == "admin"

Callers == {PolicyAdmin, "stranger"}

\* an absent storage entry, and BorrowUsage::default()
NoConfig ==
    [present |-> FALSE, max_per_tx |-> 0, max_cumulative |-> 0, time_window |-> 0]

NoUsage == [present |-> FALSE, cumulative_borrowed |-> 0, window_start |-> 0]

\* InstallParams tried: valid ones, and one invalid in each field
InstallParamsSet ==
    [max_per_tx : {2}, max_cumulative : {2, 3}, time_window : {2, 3}]
        \cup {[max_per_tx |-> 1, max_cumulative |-> 3, time_window |-> 2],
              [max_per_tx |-> 0, max_cumulative |-> 3, time_window |-> 2],
              [max_per_tx |-> 2, max_cumulative |-> 0, time_window |-> 2],
              [max_per_tx |-> 2, max_cumulative |-> 3, time_window |-> 0]}

\* soroban Val arguments of the authorised call: addresses, symbols, i128
Vals ==
    [tag : {"Address"}, val : {0}] \cup [tag : {"Symbol"}, val : {0}]
        \cup [tag : {"I128"}, val : 0..MaxBorrow]

ArgLists ==
    {<<v>> : v \in [tag : {"Address"}, val : {0}]}
        \cup {<<u, v>> : u \in [tag : {"Address"}, val : {0}], v \in Vals}

\* extract_borrow_amount: <<"Ok", amount>> or <<"Err", error>>
extract_borrow_amount(arglist) ==
    IF Len(arglist) < 2 THEN <<"Err", "InvalidFunction">>
    ELSE IF arglist[2].tag # "I128" THEN <<"Err", "InvalidFunction">>
    ELSE IF arglist[2].val <= 0 THEN <<"Err", "InvalidParams">>
    ELSE <<"Ok", arglist[2].val>>

\* storage().persistent().get(Usage).unwrap_or_default()
UsageOrDefault(k) == policyUsage[k]

\* the window reset without `usage.window_start = current_time`
ResetWindowIfExpired_KeepStart(usage, config, current_time) ==
    IF current_time >= usage.window_start + config.time_window
    THEN [usage EXCEPT !.cumulative_borrowed = 0]
    ELSE usage

\* the window reset with `>` for `>=`
ResetWindowIfExpired_Strict(usage, config, current_time) ==
    IF current_time > usage.window_start + config.time_window
    THEN [usage EXCEPT !.cumulative_borrowed = 0, !.window_start = current_time]
    ELSE usage

\* `if current_time >= usage.window_start + config.time_window`: the usage
\* enforce goes on with
ResetWindowIfExpired(usage, config, current_time) ==
    IF current_time >= usage.window_start + config.time_window
    THEN [usage EXCEPT !.cumulative_borrowed = 0, !.window_start = current_time]
    ELSE usage

\* the outcome of enforce: <<result, usage to store>>; an Err stores nothing
EnforceOutcome(k, arglist) ==
    LET config == policyConfig[k]
        amt == extract_borrow_amount(arglist)
    IN IF ~config.present THEN <<"NotInstalled", policyUsage[k]>>
       ELSE IF amt[1] = "Err" THEN <<amt[2], policyUsage[k]>>
       ELSE LET amount == amt[2] IN
            IF amount > config.max_per_tx
            THEN <<"ExceedsPerTxLimit", policyUsage[k]>>
            ELSE LET usage == ResetWindowIfExpired(UsageOrDefault(k), config, now)
                 IN IF usage.cumulative_borrowed + amount > config.max_cumulative
                    THEN <<"ExceedsCumulativeLimit", policyUsage[k]>>
                    ELSE <<"Ok",
                           [present |-> TRUE,
                            cumulative_borrowed |->
                                usage.cumulative_borrowed + amount,
                            window_start |-> usage.window_start]>>

PolicyInit ==
    /\ policyConfig = [k \in PolicyKeys |-> NoConfig]
    /\ policyUsage = [k \in PolicyKeys |-> NoUsage]
    /\ authorised = [k \in PolicyKeys |-> [t \in 0..MaxTime |-> 0]]
    /\ configuredBy = [k \in PolicyKeys |-> "nothing"]

NoneAuthorised == [t \in 0..MaxTime |-> 0]

ValidParams(params) ==
    ~(params.max_per_tx <= 0 \/ params.max_cumulative <= 0
        \/ params.time_window = 0)

ConfigOf(params) ==
    [present |-> TRUE, max_per_tx |-> params.max_per_tx,
     max_cumulative |-> params.max_cumulative,
     time_window |-> params.time_window]

install(k, params) ==
    /\ op' = "install"
    /\ args' = [key |-> k, params |-> params]
    /\ pc' = "return"
    /\ IF ~ValidParams(params)
       THEN /\ ret' = "InvalidParams"
            /\ UNCHANGED policyVars
       ELSE /\ ret' = "Ok"
            /\ policyConfig' = [policyConfig EXCEPT ![k] = ConfigOf(params)]
            /\ policyUsage' = [policyUsage EXCEPT ![k] =
                                 [present |-> TRUE, cumulative_borrowed |-> 0,
                                  window_start |-> now]]
            /\ authorised' = [authorised EXCEPT ![k] = NoneAuthorised]
            /\ configuredBy' = [configuredBy EXCEPT ![k] = "install"]
    /\ UNCHANGED <<now, poolVars, oracleVars, extVars>>

enforce(k, arglist) ==
    LET outcome == EnforceOutcome(k, arglist) IN
    /\ op' = "enforce"
    /\ args' = [key |-> k, args |-> arglist]
    /\ pc' = "return"
    /\ ret' = outcome[1]
    /\ IF outcome[1] = "Ok"
       THEN /\ policyUsage' = [policyUsage EXCEPT ![k] = outcome[2]]
            /\ authorised' = [authorised EXCEPT ![k][now] = @ + arglist[2].val]
            /\ UNCHANGED <<policyConfig, configuredBy>>
       ELSE UNCHANGED policyVars
    /\ UNCHANGED <<now, poolVars, oracleVars, extVars>>

\* uninstall that removes the usage record and leaves the configuration
uninstall_UsageOnly(k) ==
    /\ op' = "uninstall"
    /\ args' = [key |-> k]
    /\ pc' = "return"
    /\ ret' = "Ok"
    /\ policyUsage' = [policyUsage EXCEPT ![k] = NoUsage]
    /\ authorised' = [authorised EXCEPT ![k] = NoneAuthorised]
    /\ configuredBy' = [configuredBy EXCEPT ![k] = "nothing"]
    /\ UNCHANGED <<policyConfig, now, poolVars, oracleVars, extVars>>

uninstall(k) ==
    /\ op' = "uninstall"
    /\ args' = [key |-> k]
    /\ pc' = "return"
    /\ ret' = "Ok"
    /\ policyConfig' = [policyConfig EXCEPT ![k] = NoConfig]
    /\ policyUsage' = [policyUsage EXCEPT ![k] = NoUsage]
    /\ authorised' = [authorised EXCEPT ![k] = NoneAuthorised]
    /\ configuredBy' = [configuredBy EXCEPT ![k] = "nothing"]
    /\ UNCHANGED <<now, poolVars, oracleVars, extVars>>

update_config(caller, k, params) ==
    /\ op' = "update_config"
    /\ args' = [caller |-> caller, key |-> k, params |-> params]
    /\ pc' = "return"
    /\ IF caller # PolicyAdmin
       THEN /\ ret' = "Unauthorized"
            /\ UNCHANGED policyVars
       ELSE IF ~ValidParams(params)
       THEN /\ ret' = "InvalidParams"
            /\ UNCHANGED policyVars
       ELSE /\ ret' = "Ok"
            /\ policyConfig' = [policyConfig EXCEPT ![k] = ConfigOf(params)]
            /\ authorised' = [authorised EXCEPT ![k] = NoneAuthorised]
            /\ configuredBy' =
                  [configuredBy EXCEPT
                     ![k] = IF @ = "nothing" THEN "update_config" ELSE @]
            /\ UNCHANGED policyUsage
    /\ UNCHANGED <<now, poolVars, oracleVars, extVars>>

\* can_enforce with the stored cumulative_borrowed, the expired window not
\* reset
CanEnforceOutcome_NoReset(k, arglist) ==
    LET config == policyConfig[k]
        amt == extract_borrow_amount(arglist)
    IN IF ~config.present THEN <<"Err", "NotInstalled">>
       ELSE IF amt[1] = "Err" THEN <<"Err", amt[2]>>
       ELSE IF amt[2] > config.max_per_tx THEN <<"Ok", FALSE>>
       ELSE IF UsageOrDefault(k).cumulative_borrowed + amt[2]
                  > config.max_cumulative
       THEN <<"Ok", FALSE>>
       ELSE <<"Ok", TRUE>>

\* the Result<bool, PolicyError> of can_enforce: <<"Ok", bool>> or
\* <<"Err", error>>
CanEnforceOutcome(k, arglist) ==
    LET config == policyConfig[k]
        amt == extract_borrow_amount(arglist)
    IN IF ~config.present THEN <<"Err", "NotInstalled">>
       ELSE IF amt[1] = "Err" THEN <<"Err", amt[2]>>
       ELSE LET amount == amt[2] IN
            IF amount > config.max_per_tx THEN <<"Ok", FALSE>>
            ELSE LET stored == UsageOrDefault(k)
                     usage ==
                         IF now >= stored.window_start + config.time_window
                         THEN [stored EXCEPT !.cumulative_borrowed = 0]
                         ELSE stored
                 IN IF usage.cumulative_borrowed + amount
                          > config.max_cumulative
                    THEN <<"Ok", FALSE>>
                    ELSE <<"Ok", TRUE>>

\* can_enforce reads storage and the ledger timestamp, and writes nothing
can_enforce(k, arglist) ==
    /\ op' = "can_enforce"
    /\ args' = [key |-> k, args |-> arglist]
    /\ pc' = "return"
    /\ ret' = CanEnforceOutcome(k, arglist)
    /\ UNCHANGED <<now, policyVars, poolVars, oracleVars, extVars>>

\* remaining_capacity without `.min(config.max_per_tx)`
RemainingCapacity_NoPerTxCap(k) ==
    LET config == policyConfig[k] IN
    IF ~config.present THEN <<"Err", "NotInstalled">>
    ELSE LET stored == UsageOrDefault(k)
             usage == IF now >= stored.window_start + config.time_window
                      THEN [stored EXCEPT !.cumulative_borrowed = 0]
                      ELSE stored
             remaining == config.max_cumulative - usage.cumulative_borrowed
         IN <<"Ok", IF remaining > 0 THEN remaining ELSE 0>>

\* the Result<i128, PolicyError> of remaining_capacity
RemainingCapacity(k) ==
    LET config == policyConfig[k] IN
    IF ~config.present THEN <<"Err", "NotInstalled">>
    ELSE LET stored == UsageOrDefault(k)
             usage == IF now >= stored.window_start + config.time_window
                      THEN [stored EXCEPT !.cumulative_borrowed = 0]
                      ELSE stored
             remaining == config.max_cumulative - usage.cumulative_borrowed
             capped == IF remaining < config.max_per_tx THEN remaining
                       ELSE config.max_per_tx
         IN <<"Ok", IF capped > 0 THEN capped ELSE 0>>

\* remaining_capacity is a view: it writes nothing
remaining_capacity(k) ==
    /\ op' = "remaining_capacity"
    /\ args' = [key |-> k]
    /\ pc' = "return"
    /\ ret' = RemainingCapacity(k)
    /\ UNCHANGED <<now, policyVars, poolVars, oracleVars, extVars>>

\* the ledger closes: the timestamp moves on
PolicyAdvanceTime ==
    /\ now < MaxTime
    /\ now' = now + 1
    /\ UNCHANGED <<callVars, policyVars, poolVars, oracleVars, extVars>>

\* the risk engine, the blend adapter and the pool after `initialize(admin)`
InitializedInit ==
    /\ riskAdmin = "admin"
    /\ StopLossInit
    /\ blendAdmin = "admin"
    /\ blendPool = "blend-pool-1"
    /\ assetIndex = [a \in BlendAssets |-> NoAssetIndex]
    /\ poolAdmin = "admin"
    /\ firstAdmin = [c \in InitializedContracts |-> "admin"]

ContractsInit ==
    /\ now = 0
    /\ PolicyInit
    /\ PoolInit
    /\ OracleInit
    /\ InitializedInit

InitPolicy ==
    /\ ContractsInit
    /\ pc = "idle"
    /\ op = "initialize"
    /\ args = [admin |-> PolicyAdmin]
    /\ ret = "Ok"

NextPolicy ==
    \/ \E k \in PolicyKeys, params \in InstallParamsSet : install(k, params)
    \/ \E k \in PolicyKeys, arglist \in ArgLists : enforce(k, arglist)
    \/ \E k \in PolicyKeys : uninstall(k)
    \/ \E caller \in Callers, k \in PolicyKeys, params \in InstallParamsSet :
          update_config(caller, k, params)
    \/ \E k \in PolicyKeys, arglist \in ArgLists : can_enforce(k, arglist)
    \/ \E k \in PolicyKeys : remaining_capacity(k)
    \/ PolicyAdvanceTime

SpecPolicy == InitPolicy /\ [][NextPolicy]_vars

RECURSIVE SumAuthorised(_, _, _)
\* the amount authorised for key k at the ledger times from..to
SumAuthorised(k, from, to) ==
    IF from > to \/ from > MaxTime THEN 0
    ELSE authorised[k][from] + SumAuthorised(k, from + 1, to)

\* C8 as stated: while the configuration of an account/rule stays fixed, the
\* amounts authorised by successful enforce calls within any span of
\* time_window seconds never sum to more than max_cumulative.
C8_SlidingWindowLimit ==
    \A k \in PolicyKeys :
        policyConfig[k].present =>
            \A t \in 0..MaxTime :
                SumAuthorised(k, t, t + policyConfig[k].time_window - 1)
                    <= policyConfig[k].max_cumulative

\* C8 amended: while the configuration stays fixed, the amounts authorised
\* within one usage window (from the stored window_start until the enforce
\* that resets it) never sum to more than max_cumulative; a span of
\* time_window seconds can straddle two windows, and the amounts authorised
\* within it never sum to more than 2 * max_cumulative.
C8_PerWindowLimit ==
    \A k \in PolicyKeys :
        policyConfig[k].present =>
            /\ SumAuthorised(k, policyUsage[k].window_start, MaxTime)
                  <= policyConfig[k].max_cumulative
            /\ \A t \in 0..MaxTime :
                  SumAuthorised(k, t, t + policyConfig[k].time_window - 1)
                      <= 2 * policyConfig[k].max_cumulative

\* C8 witness: a span of time_window seconds across a window reset in which
\* twice max_cumulative was authorised
C8_Witness ==
    \E k \in PolicyKeys :
        /\ policyConfig[k].present
        /\ \E t \in 0..MaxTime :
              SumAuthorised(k, t, t + policyConfig[k].time_window - 1)
                  = 2 * policyConfig[k].max_cumulative

\* C9: enforce with a borrow amount a > 0 on an installed key returns
\* ExceedsPerTxLimit when a > max_per_tx; else ExceedsCumulativeLimit when the
\* current window's cumulative_borrowed (0, with window_start moved to now, if
\* now >= window_start + time_window) plus a exceeds max_cumulative; else it
\* succeeds and stores that cumulative_borrowed plus a; a failing enforce
\* leaves the stored usage unchanged.
C9_EnforceOutcomes ==
    [][\A k \in PolicyKeys, arglist \in ArgLists :
         (/\ enforce(k, arglist)
          /\ policyConfig[k].present
          /\ Len(arglist) = 2 /\ arglist[2].tag = "I128" /\ arglist[2].val > 0)
         =>
         LET a == arglist[2].val
             config == policyConfig[k]
             stored == policyUsage[k]
             expired == now >= stored.window_start + config.time_window
             current == IF expired THEN 0 ELSE stored.cumulative_borrowed
             start == IF expired THEN now ELSE stored.window_start
         IN /\ a > config.max_per_tx => ret' = "ExceedsPerTxLimit"
            /\ (a <= config.max_per_tx /\ current + a > config.max_cumulative)
                  => ret' = "ExceedsCumulativeLimit"
            /\ (a <= config.max_per_tx /\ current + a <= config.max_cumulative)
                  => /\ ret' = "Ok"
                     /\ policyUsage'[k].cumulative_borrowed = current + a
                     /\ policyUsage'[k].window_start = start
            /\ ret' # "Ok" => policyUsage' = policyUsage
    ]_vars

\* C9 witness: an enforce that succeeded in a window it had to reset
C9_Witness ==
    \E k \in PolicyKeys :
        /\ op = "enforce" /\ ret = "Ok" /\ args.key = k
        /\ now > 0
        /\ policyUsage[k].window_start = now
        /\ policyUsage[k].cumulative_borrowed = args.args[2].val
        /\ \E t \in 0..(now - 1) : authorised[k][t] > 0

\* C28: can_enforce returns Ok(true) exactly when enforce, called in the same
\* state at the same ledger time with the same arguments, would succeed; it
\* returns the error enforce returns for a missing configuration or an invalid
\* amount, and Ok(false) where enforce reports a limit; can_enforce leaves the
\* stored configuration and usage as they are.
C28_CanEnforceAgreesWithEnforce ==
    [][\A k \in PolicyKeys, arglist \in ArgLists :
         can_enforce(k, arglist) =>
         LET would == EnforceOutcome(k, arglist)[1]
             said == ret'
         IN /\ (said[1] = "Ok" /\ said[2]) <=> (would = "Ok")
            /\ (said[1] = "Err") <=>
                  (would \in {"NotInstalled", "InvalidFunction",
                              "InvalidParams"})
            /\ said[1] = "Err" => said[2] = would
            /\ policyConfig' = policyConfig
            /\ policyUsage' = policyUsage
    ]_vars

\* C28 witness: can_enforce answered true for an amount that fits only because
\* the stored window has expired, and enforce would succeed as well
C28_Witness ==
    /\ op = "can_enforce" /\ pc = "return"
    /\ ret[1] = "Ok" /\ ret[2]
    /\ LET k == args.key
           a == args.args[2].val
       IN /\ policyConfig[k].present
          /\ now >= policyUsage[k].window_start + policyConfig[k].time_window
          /\ policyUsage[k].cumulative_borrowed + a
                > policyConfig[k].max_cumulative
          /\ EnforceOutcome(k, args.args)[1] = "Ok"

\* the window's cumulative_borrowed as of now: 0 once the stored window has
\* expired
CurrentWindowBorrowed(k) ==
    IF now >= policyUsage[k].window_start + policyConfig[k].time_window
    THEN 0
    ELSE policyUsage[k].cumulative_borrowed

\* C29: for an installed account/rule remaining_capacity returns
\* max(0, min(max_cumulative - cumulative_borrowed of the current window,
\* max_per_tx)), the cumulative_borrowed counting as 0 once the window has
\* expired; enforce with a borrow amount a > 0 in the same state succeeds
\* exactly when a <= that remaining capacity.
C29_RemainingCapacityIsEnforceLimit ==
    [][\A k \in PolicyKeys :
         policyConfig[k].present =>
         LET config == policyConfig[k]
             left == config.max_cumulative - CurrentWindowBorrowed(k)
             least == IF left < config.max_per_tx THEN left
                      ELSE config.max_per_tx
             capacity == IF least > 0 THEN least ELSE 0
         IN /\ remaining_capacity(k) => ret' = <<"Ok", capacity>>
            /\ \A arglist \in ArgLists :
                  (/\ enforce(k, arglist)
                   /\ Len(arglist) = 2 /\ arglist[2].tag = "I128"
                   /\ arglist[2].val > 0)
                  => ((ret' = "Ok") <=>
                         (arglist[2].val <= RemainingCapacity(k)[2]))
    ]_vars

\* C29 witness: remaining_capacity reported what is left of max_cumulative in a
\* running window, less than max_per_tx and more than 0
C29_Witness ==
    /\ op = "remaining_capacity" /\ pc = "return"
    /\ ret[1] = "Ok"
    /\ LET k == args.key IN
          /\ policyConfig[k].present
          /\ now < policyUsage[k].window_start + policyConfig[k].time_window
          /\ policyUsage[k].cumulative_borrowed > 0
          /\ ret[2] = policyConfig[k].max_cumulative
                         - policyUsage[k].cumulative_borrowed
          /\ 0 < ret[2] /\ ret[2] < policyConfig[k].max_per_tx

\* C30: enforce, can_enforce and remaining_capacity return NotInstalled
\* exactly when no configuration is stored for the account/rule; as long as
\* update_config has not created the configuration, one is stored exactly from
\* a valid install until the next uninstall; an install with max_per_tx <= 0,
\* max_cumulative <= 0 or time_window = 0 returns InvalidParams and leaves the
\* configuration and the usage record as they were, stored or not.
C30_NotInstalledAndInvalidInstall ==
    [][\A k \in PolicyKeys :
         LET stored == policyConfig[k].present IN
         /\ configuredBy[k] # "update_config"
               => (stored <=> configuredBy[k] = "install")
         /\ \A arglist \in ArgLists :
               /\ enforce(k, arglist)
                     => ((ret' = "NotInstalled") <=> ~stored)
               /\ can_enforce(k, arglist)
                     => ((ret'[1] = "Err" /\ ret'[2] = "NotInstalled")
                            <=> ~stored)
         /\ remaining_capacity(k)
               => ((ret'[1] = "Err" /\ ret'[2] = "NotInstalled") <=> ~stored)
         /\ \A params \in InstallParamsSet :
               (/\ install(k, params)
                /\ \/ params.max_per_tx <= 0
                   \/ params.max_cumulative <= 0
                   \/ params.time_window = 0)
               => /\ ret' = "InvalidParams"
                  /\ policyConfig' = policyConfig
                  /\ policyUsage' = policyUsage
    ]_vars

\* C30 witness: an install with invalid parameters was rejected on a key whose
\* installed configuration has borrowed amounts on record
C30_Witness ==
    /\ op = "install" /\ pc = "return" /\ ret = "InvalidParams"
    /\ LET k == args.key IN
          /\ configuredBy[k] = "install"
          /\ policyConfig[k].present
          /\ policyUsage[k].present
          /\ policyUsage[k].cumulative_borrowed > 0

\* the three contracts before anybody has called initialize
InitInitialize ==
    /\ now = 0
    /\ PolicyInit
    /\ PoolInit
    /\ OracleInit
    /\ riskAdmin = NoAdmin
    /\ StopLossInit
    /\ BlendInit
    /\ poolAdmin = NoAdmin
    /\ firstAdmin = [c \in InitializedContracts |-> NoAdmin]
    /\ pc = "idle"
    /\ op = "deploy"
    /\ args = [contracts |-> InitializedContracts]
    /\ ret = "Ok"

NextInitialize ==
    \/ \E admin \in AdminCallers, blend_pool \in BlendPools :
          BlendAdapter_initialize(admin, blend_pool)
    \/ \E caller \in AdminCallers, asset \in BlendAssets,
          reserve_index \in ReserveIndices :
          register_asset(caller, asset, reserve_index)
    \/ \E caller \in AdminCallers, blend_pool \in BlendPools :
          set_blend_pool(caller, blend_pool)
    \/ \E admin \in AdminCallers : RiskEngine_initialize(admin)
    \/ \E admin \in AdminCallers : VantisPool_initialize(admin)
    \/ \E supplier \in Users, amount \in SupplyAmounts :
          SupplyOnceInitialized(supplier, amount)

SpecInitialize == InitInitialize /\ [][NextInitialize]_vars

\* C34: once the blend adapter is initialized, register_asset and
\* set_blend_pool called by an address other than the admin stored at
\* initialize return Unauthorized and leave the registered assets and the
\* stored Blend pool address unchanged; called by that admin they return Ok,
\* register_asset stores the reserve index under the asset and set_blend_pool
\* stores the new pool address.
C34_BlendAdminOnly ==
    [][\A caller \in AdminCallers :
         LET admin == firstAdmin["blend-adapter"] IN
         admin # NoAdmin =>
         /\ \A asset \in BlendAssets, reserve_index \in ReserveIndices :
               register_asset(caller, asset, reserve_index) =>
                  IF caller # admin
                  THEN /\ ret' = "Unauthorized"
                       /\ assetIndex' = assetIndex
                       /\ blendPool' = blendPool
                  ELSE /\ ret' = "Ok"
                       /\ assetIndex' =
                             [assetIndex EXCEPT ![asset] =
                                 [present |-> TRUE, index |-> reserve_index]]
                       /\ blendPool' = blendPool
         /\ \A blend_pool \in BlendPools :
               set_blend_pool(caller, blend_pool) =>
                  IF caller # admin
                  THEN /\ ret' = "Unauthorized"
                       /\ assetIndex' = assetIndex
                       /\ blendPool' = blendPool
                  ELSE /\ ret' = "Ok"
                       /\ blendPool' = blend_pool
                       /\ assetIndex' = assetIndex
    ]_vars

\* C34 witness: set_blend_pool by a caller who is not the admin was refused
\* and the adapter keeps another pool address and a registered asset
C34_Witness ==
    /\ op = "set_blend_pool" /\ pc = "return" /\ ret = "Unauthorized"
    /\ blendAdmin # NoAdmin
    /\ args.caller # blendAdmin
    /\ blendPool # args.blend_pool
    /\ \E asset \in BlendAssets : assetIndex[asset].present

\* the admin each contract has stored
StoredAdmin ==
    [c \in InitializedContracts |->
        IF c = "blend-adapter" THEN blendAdmin
        ELSE IF c = "risk-engine" THEN riskAdmin
        ELSE poolAdmin]

\* C35: initialize takes effect once per contract: a call to initialize of a
\* contract that has an admin stored aborts with "Already initialized" and
\* changes nothing, and in every state the admin a contract has stored is the
\* admin passed to its first initialize.
C35_InitializeOnce ==
    [][/\ StoredAdmin' = firstAdmin'
       /\ \A admin \in AdminCallers :
             /\ \A blend_pool \in BlendPools :
                   (BlendAdapter_initialize(admin, blend_pool)
                       /\ blendAdmin # NoAdmin)
                   => /\ ret' = "Panic: Already initialized"
                      /\ <<policyVars, poolVars, oracleVars, extVars>>'
                            = <<policyVars, poolVars, oracleVars, extVars>>
             /\ (RiskEngine_initialize(admin) /\ riskAdmin # NoAdmin)
                   => /\ ret' = "Panic: Already initialized"
                      /\ <<policyVars, poolVars, oracleVars, extVars>>'
                            = <<policyVars, poolVars, oracleVars, extVars>>
             /\ (VantisPool_initialize(admin) /\ poolAdmin # NoAdmin)
                   => /\ ret' = "Panic: Already initialized"
                      /\ <<policyVars, poolVars, oracleVars, extVars>>'
                            = <<policyVars, poolVars, oracleVars, extVars>>
    ]_vars

\* C35 witness: a second initialize of the pool, with another admin, aborted
\* while the pool holds supplied reserves
C35_Witness ==
    /\ op = "initialize" /\ pc = "return"
    /\ ret = "Panic: Already initialized"
    /\ args.contract = "vantis-pool"
    /\ args.admin # poolAdmin
    /\ poolAdmin = firstAdmin["vantis-pool"]
    /\ poolReserves > 0

InitRiskEngine ==
    /\ ContractsInit
    /\ pc = "idle"
    /\ op = "initialize"
    /\ args = [admin |-> "admin"]
    /\ ret = "Ok"

NextRiskEngine ==
    \/ \E user \in StopLossUsers, config \in StopLossConfigs,
          authorized \in BOOLEAN : enable_stop_loss(user, config, authorized)
    \/ \E user \in StopLossUsers, authorized \in BOOLEAN :
          disable_stop_loss(user, authorized)
    \/ \E user \in StopLossUsers : get_stop_loss_config(user)

SpecRiskEngine == InitRiskEngine /\ [][NextRiskEngine]_vars

\* C31: get_stop_loss_config(user) returns the configuration of the user's
\* latest successful enable_stop_loss if no disable_stop_loss followed it, and
\* None otherwise; enable_stop_loss with max_slippage > 1000 returns
\* InvalidParams and leaves the stored configuration unchanged; every stored
\* configuration has max_slippage <= 1000.
C31_StopLossConfigIsLatestEnabled ==
    [][/\ \A user \in StopLossUsers :
            /\ get_stop_loss_config(user) => ret' = lastEnabled[user]
            /\ \A config \in StopLossConfigs :
                  (/\ enable_stop_loss(user, config, TRUE)
                   /\ config.max_slippage > 1000)
                  => /\ ret' = "InvalidParams"
                     /\ stopLossConfig' = stopLossConfig
       /\ \A user \in StopLossUsers :
            stopLossConfig'[user].present
                => stopLossConfig'[user].max_slippage <= 1000
    ]_vars

\* C31 witness: an enable_stop_loss with max_slippage above 1000 was rejected
\* for a user whose stored configuration came from an earlier enable_stop_loss,
\* while another user has none
C31_Witness ==
    /\ op = "enable_stop_loss" /\ pc = "return" /\ ret = "InvalidParams"
    /\ args.config.max_slippage > 1000
    /\ stopLossConfig[args.user].present
    /\ stopLossConfig[args.user].max_slippage = 1000
    /\ \E other \in StopLossUsers : ~stopLossConfig[other].present

InitPool ==
    /\ ContractsInit
    /\ pc = "idle"
    /\ op = "initialize"
    /\ args = [admin |-> PoolAdmin]
    /\ ret = "Ok"

NextPool ==
    \/ \E caller \in {PoolAdmin, "stranger"}, token \in Tokens :
          add_collateral_asset(caller, token)
    \/ \E user \in Users, asset \in Tokens, amount \in DepositAmounts \cup {0} :
          deposit(user, asset, amount)
    \/ \E user \in Users, asset \in Tokens, amount \in WithdrawAmounts \cup {0} :
          withdraw(user, asset, amount)
    \/ \E user \in Users, amount \in BorrowAmounts \cup {0} : borrow(user, amount)
    \/ \E user \in Users, amount \in RepayAmounts \cup {0} : repay(user, amount)
    \/ \E supplier \in Users, amount \in SupplyAmounts \cup {0} :
          supply(supplier, amount)
    \/ PoolAdvanceTime

SpecPool == InitPool /\ [][NextPool]_vars

\* the debt of the user once the interest due at `now` has been accrued
DebtNow(user) ==
    accrue_interest(user).principal + accrue_interest(user).accrued_interest

\* C6: borrow(user, amount) with amount > 0 succeeds exactly when the
\* reserves cover the amount and the user's debt after the borrow
\* (principal + accrued_interest + amount) does not exceed the sum over the
\* user's assets of balance * collateral_factor / 10000, on a first borrow
\* and on every later one.
C6_BorrowSucceedsIffWithinCapacity ==
    [][\A user \in Users, amount \in BorrowAmounts :
          borrow(user, amount) =>
              ((ret' = "Ok") <=>
                  (/\ poolReserves >= amount
                   /\ DebtNow(user) + amount <= TotalCapacity(user)))]_vars

\* the interest due on principal p at rate r (bp per year) over dt seconds,
\* for dt a whole number of half years:
\* p * r * dt / (31536000 * 10000) = p * r * halves / 20000
InterestOverHalfYears(p, r, dt) ==
    LET halves == dt \div (SECONDS_PER_YEAR \div 2)
        x == p * r * halves
    IN IF x >= 0 THEN x \div 20000 ELSE -((-x) \div 20000)

\* C14: accrue_interest at ledger time now, for a position with
\* principal # 0 and now > last_accrual, adds exactly
\* principal * rate * (now - last_accrual) / (31536000 * 10000), truncated,
\* to accrued_interest, leaves principal unchanged and sets last_accrual to
\* now; with principal = 0 or now = last_accrual it leaves the stored
\* BorrowData unchanged.
C14_AccrualExact ==
    \A user \in Users :
        LET stored == borrows[user]
            after == accrue_interest(user)
            elapsed == now - stored.last_accrual
        IN IF stored.principal # 0 /\ elapsed > 0
           THEN /\ elapsed % (SECONDS_PER_YEAR \div 2) = 0
                /\ after.accrued_interest =
                      stored.accrued_interest
                        + InterestOverHalfYears(stored.principal,
                                                get_current_interest_rate,
                                                elapsed)
                /\ after.principal = stored.principal
                /\ after.last_accrual = now
           ELSE after = stored

\* C14 witness: a repay that accrued more interest on the principal than it
\* then paid off
C14_Witness ==
    /\ pc = "return" /\ op = "repay" /\ ret = "Ok"
    /\ borrows[args.user].accrued_interest > 0
    /\ borrows[args.user].principal > 0
    /\ borrows[args.user].last_accrual = now
    /\ now > 0

\* C15: repay(user, amount) with amount > 0 on a position whose debt after
\* accrual is > 0 lowers the debt by exactly min(amount, debt), taking the
\* payment from accrued_interest first and only the remainder from the
\* principal, so that neither is ever negative after any borrow or repay;
\* with no stored position or no debt it returns NoBorrowPosition.
C15_RepayInterestFirst ==
    [][/\ \A user \in Users :
             borrows'[user].principal >= 0 /\ borrows'[user].accrued_interest >= 0
       /\ \A user \in Users, amount \in RepayAmounts :
             repay(user, amount) =>
                LET due == accrue_interest(user)
                    debt == due.principal + due.accrued_interest
                    paid == Min(amount, debt)
                IN IF ~borrows[user].present \/ debt = 0
                   THEN ret' = "NoBorrowPosition" /\ borrows' = borrows
                   ELSE /\ debt > 0
                        /\ ret' = "Ok"
                        /\ borrows'[user].principal
                              + borrows'[user].accrued_interest = debt - paid
                        /\ borrows'[user].accrued_interest =
                              Max(0, due.accrued_interest - paid)
                        /\ borrows'[user].principal =
                              due.principal
                                - Max(0, paid - due.accrued_interest)]_vars

\* C15 witness: a repay that paid off the accrued interest and part of the
\* principal
C15_Witness ==
    /\ pc = "return" /\ op = "repay" /\ ret = "Ok"
    /\ now > 0
    /\ borrows[args.user].accrued_interest = 0
    /\ borrows[args.user].principal \in 1..299
    /\ borrows[args.user].principal + args.amount > 300

\* the stored debt of a user, as calculate_health_factor reads it
StoredDebt(user) == borrows[user].principal + borrows[user].accrued_interest

\* get_health_factor(user) in the current state
get_health_factor(user) == calculate_health_factor(user, collateral[user])

\* the last call was a successful deposit(user, asset, amount)
JustDeposited(user, asset, amount) ==
    /\ pc = "return" /\ op = "deposit" /\ ret = "Ok"
    /\ args = [user |-> user, asset |-> asset, amount |-> amount]

\* C16: for a user without debt, deposit(asset, a) followed by
\* withdraw(asset, a), with a > 0 and the asset supported, both succeed and
\* restore the user's balance of the asset and TotalDeposits(asset); the
\* health factor is the i128::MAX sentinel before, between and after
\* the two calls.  (The deposit adds a to both, the withdraw that follows it
\* takes a from both.)
C16_DepositWithdrawRoundTrip ==
    [][\A user \in Users, asset \in Tokens, a \in DepositAmounts :
          /\ (deposit(user, asset, a) /\ AssetSupported(asset)
                /\ StoredDebt(user) = 0)
                => /\ get_health_factor(user) = I128_MAX
                   /\ ret' = "Ok"
                   /\ collateral'[user][asset] = collateral[user][asset] + a
                   /\ totalDeposits'[asset] = totalDeposits[asset] + a
                   /\ get_health_factor(user)' = I128_MAX
          /\ (withdraw(user, asset, a) /\ JustDeposited(user, asset, a)
                /\ StoredDebt(user) = 0)
                => /\ ret' = "Ok"
                   /\ collateral'[user][asset] = collateral[user][asset] - a
                   /\ totalDeposits'[asset] = totalDeposits[asset] - a
                   /\ get_health_factor(user)' = I128_MAX]_vars

\* C16 witness: a successful withdraw of the amount just deposited, by a
\* user without debt
C16_Witness ==
    /\ pc = "return" /\ op = "withdraw" /\ ret = "Ok"
    /\ args.amount \in DepositAmounts
    /\ StoredDebt(args.user) = 0
    /\ collateral[args.user][args.asset] = 0
    /\ totalDeposits[args.asset] = 0

----------------------------------------------------------------------------
(* vantis-pool: the interest-rate model, called with chosen arguments      *)

\* utilizations and optimal utilizations in 0..10000: a grid of MaxRateGrid
\* steps and the values next to the ends and to the kink of the tests
MaxRateGrid == 10

Utilizations ==
    {(10000 * k) \div MaxRateGrid : k \in 0..MaxRateGrid}
        \cup {1, 7999, 8001, 9999}

OptimalUtilizations == {0, 1, 5000, 8000, 9999, 10000}

RateParams ==
    [base_rate : {0, 200}, slope1 : {0, 400}, slope2 : {7500},
     optimal_utilization : OptimalUtilizations]

PoolBalances == {0, 1, 300, 700, 1000}

InitRate ==
    /\ ContractsInit
    /\ pc = "call"
    /\ ret = <<"None", 0>>
    /\ \/ /\ op = "calculate_interest_rate"
          /\ \E u \in Utilizations, params \in RateParams :
                args = [utilization |-> u, params |-> params]
       \/ /\ op = "get_current_interest_rate"
          /\ \E reserves \in PoolBalances, total_borrows \in PoolBalances,
                params \in RateParams :
                args = [reserves |-> reserves, total_borrows |-> total_borrows,
                        params |-> params]

EvalRate ==
    /\ pc = "call"
    /\ pc' = "return"
    /\ ret' = IF op = "calculate_interest_rate"
              THEN calculate_interest_rate(args.utilization,
                       args.params.base_rate, args.params.slope1,
                       args.params.slope2, args.params.optimal_utilization)
              ELSE CurrentInterestRate(args.params, args.reserves,
                                       args.total_borrows)
    /\ UNCHANGED <<op, args, now, policyVars, poolVars, oracleVars, extVars>>

NextRate == EvalRate

SpecRate == InitRate /\ [][NextRate]_vars

RateReturned ==
    pc = "return" /\ op \in {"calculate_interest_rate", "get_current_interest_rate"}

\* the utilization a rate call is about: the argument, or
\* TotalBorrows * 10000 / (PoolReserves + TotalBorrows), 0 with no liquidity
UtilizationOfCall ==
    IF op = "calculate_interest_rate" THEN args.utilization
    ELSE IF args.reserves + args.total_borrows = 0 THEN 0
    ELSE (args.total_borrows * 10000) \div (args.reserves + args.total_borrows)

\* C12: the interest-rate function is total: calculate_interest_rate and the
\* pool's get_current_interest_rate return a rate, without a division by
\* zero or an abort, for every utilization and every optimal_utilization in
\* 0..10000, the ends included.
C12_InterestRateTotal == RateReturned => ret[1] = "Ok"

\* the kink formula of the rate model
KinkRate(u, params) ==
    IF u <= params.optimal_utilization
    THEN params.base_rate + (u * params.slope1) \div params.optimal_utilization
    ELSE params.base_rate + params.slope1
           + ((u - params.optimal_utilization) * params.slope2)
                \div (10000 - params.optimal_utilization)

\* C13: for optimal_utilization in 1..9999 and u in 0..10000 the rate is
\* base + u*slope1/optimal when u <= optimal and
\* base + slope1 + (u - optimal)*slope2/(10000 - optimal) when u > optimal,
\* and the pool's get_current_interest_rate returns that value for
\* u = TotalBorrows*10000/(PoolReserves + TotalBorrows), u = 0 without
\* liquidity.
C13_KinkRateFormula ==
    (RateReturned /\ args.params.optimal_utilization \in 1..9999)
        => ret = <<"Ok", KinkRate(UtilizationOfCall, args.params)>>

\* C13 witness: the pool's rate above the kink, with both slopes at work
C13_Witness ==
    /\ RateReturned
    /\ op = "get_current_interest_rate"
    /\ args.params.optimal_utilization \in 1..9999
    /\ args.params.slope1 > 0
    /\ UtilizationOfCall > args.params.optimal_utilization
    /\ ret[2] > args.params.base_rate + args.params.slope1

----------------------------------------------------------------------------
(* vantis-pool/src/borrow.rs: calculate_interest                           *)

\* calculate_interest rounding the quotient up
calculate_interest_RoundedUp(principal, rate, time_elapsed) ==
    IF principal <= 0 \/ rate = 0 \/ time_elapsed = 0 THEN 0
    ELSE InterestFor_RoundedUp(principal, rate, time_elapsed)

\* principal * rate * time_elapsed / (SECONDS_PER_YEAR * BASIS_POINTS)
calculate_interest(principal, rate, time_elapsed) ==
    IF principal <= 0 \/ rate = 0 \/ time_elapsed = 0 THEN 0
    ELSE MulDivMod(principal * rate, time_elapsed, SECONDS_PER_YEAR)[1]
            \div 10000

\* elapsed times tried: quarters of a year up to MaxQuarters of them, a
\* second, a day and a year less a second
MaxQuarters == 6

InterestTimes ==
    {k * (SECONDS_PER_YEAR \div 4) : k \in 0..MaxQuarters}
        \cup {1, 86400, SECONDS_PER_YEAR - 1}

InterestArgs ==
    [principal : {-1000, 0, 1, 999, 1000}, rate : {0, 1, 500, 1000, 3333},
     t1 : InterestTimes, t2 : InterestTimes]

InitInterest ==
    /\ ContractsInit
    /\ pc = "call"
    /\ op = "calculate_interest"
    /\ args \in InterestArgs
    /\ ret = [first |-> 0, second |-> 0, once |-> 0]

\* the interest over t1, over t2, and over t1 + t2 at once
EvalInterest ==
    /\ pc = "call"
    /\ op = "calculate_interest"
    /\ ret' = [first |-> calculate_interest(args.principal, args.rate, args.t1),
               second |-> calculate_interest(args.principal, args.rate, args.t2),
               once |-> calculate_interest(args.principal, args.rate,
                                           args.t1 + args.t2)]
    /\ pc' = "return"
    /\ UNCHANGED <<op, args, now, policyVars, poolVars, oracleVars, extVars>>

NextInterest == EvalInterest

SpecInterest == InitInterest /\ [][NextInterest]_vars

InterestReturned == pc = "return" /\ op = "calculate_interest"

\* C27: for every principal >= 0, rate and elapsed times t1, t2, accruing in
\* two steps never yields more than accruing once and loses at most one unit
\* to truncation: calculate_interest(p, r, t1) + calculate_interest(p, r, t2)
\* <= calculate_interest(p, r, t1 + t2)
\* <= calculate_interest(p, r, t1) + calculate_interest(p, r, t2) + 1.
C27_InterestSplitWithinOne ==
    (InterestReturned /\ args.principal >= 0) =>
        /\ ret.first + ret.second <= ret.once
        /\ ret.once <= ret.first + ret.second + 1

\* C27 witness: two periods with interest each, whose sum is one unit less
\* than the interest of the whole period
C27_Witness ==
    /\ InterestReturned
    /\ ret.first > 0 /\ ret.second > 0
    /\ ret.once = ret.first + ret.second + 1

----------------------------------------------------------------------------
(* risk-engine/src/liquidation.rs                                          *)

TARGET_HEALTH_FACTOR == 10500

\* the branch `if denominator <= 0`, with the cap on the repaid debt dropped
LiquidateEverything_NoCap(current_collateral, current_debt, penalty_factor) ==
    <<current_collateral, TDiv(current_collateral * 10000, penalty_factor)>>

\* the same branch repaying the whole debt, as health.rs does
LiquidateEverything_WholeDebt(current_collateral, current_debt, penalty_factor) ==
    <<current_collateral, current_debt>>

\* the branch `if denominator <= 0`: seize everything, repay what it covers
LiquidateEverything(current_collateral, current_debt, penalty_factor) ==
    LET collateral_to_seize == current_collateral
        debt == TDiv(current_collateral * 10000, penalty_factor)
    IN <<collateral_to_seize, Min(debt, current_debt)>>

\* the tail of the function: penalty applied, both amounts capped
CapAtAvailable(debt_to_repay, penalty_factor, current_collateral, current_debt) ==
    LET collateral_to_seize == TDiv(debt_to_repay * penalty_factor, 10000)
        final_debt == Min(debt_to_repay, current_debt)
        final_collateral == Min(collateral_to_seize, current_collateral)
    IN <<final_collateral, final_debt>>

\* returns <<collateral_to_seize, debt_to_repay>>
calculate_partial_liquidation(current_collateral, current_debt, liquidation_penalty, target_health) ==
    IF current_debt = 0 THEN <<0, 0>>
    ELSE LET current_health == TDiv(current_collateral * 10000, current_debt) IN
         IF current_health >= target_health THEN <<0, 0>>
         ELSE LET penalty_factor == 10000 + liquidation_penalty
                  numerator == 10000 * current_collateral
                                 - target_health * current_debt
                  denominator == penalty_factor - target_health
              IN IF denominator <= 0
                 THEN LiquidateEverything(current_collateral, current_debt,
                                          penalty_factor)
                 ELSE LET debt_to_repay == TDiv(numerator, denominator) IN
                      IF debt_to_repay <= 0 THEN <<0, 0>>
                      ELSE CapAtAvailable(debt_to_repay, penalty_factor,
                                          current_collateral, current_debt)

LiquidationArgs ==
    [C : Amounts, D : Amounts, penalty : Penalties, target : Targets]

InitLiquidation ==
    /\ ContractsInit
    /\ pc = "call"
    /\ op = "calculate_partial_liquidation"
    /\ args \in LiquidationArgs
    /\ ret = <<0, 0>>

EvalLiquidation ==
    /\ pc = "call"
    /\ op = "calculate_partial_liquidation"
    /\ ret' = calculate_partial_liquidation(args.C, args.D, args.penalty,
                                            args.target)
    /\ pc' = "return"
    /\ UNCHANGED <<op, args, now, policyVars, poolVars, oracleVars, extVars>>

NextLiquidation == EvalLiquidation

SpecLiquidation == InitLiquidation /\ [][NextLiquidation]_vars

\* the call under examination has returned
LiqReturned == pc = "return" /\ op = "calculate_partial_liquidation"

\* the position of the call is below the target health
LiqBelowTarget ==
    /\ args.D > 0
    /\ TDiv(args.C * 10000, args.D) < args.target

\* C1: for C > 0, D > 0 and health below target, the returned (seized, R)
\* restores the target: the health after the liquidation is at least
\* target_health (no debt left counts as healthy), or all collateral is seized.
C1_LiquidationRestoresTarget ==
    (LiqReturned /\ args.C > 0 /\ LiqBelowTarget) =>
        \/ ret[1] = args.C
        \/ args.D - ret[2] = 0
        \/ TDiv((args.C - ret[1]) * 10000, args.D - ret[2]) >= args.target

\* C2: the liquidation is non-empty (seized > 0 and R > 0) exactly when
\* C > 0, D > 0 and the health is below target; otherwise it is (0, 0).
C2_NonEmptyIffBelowTarget ==
    LiqReturned =>
        /\ (ret[1] > 0 /\ ret[2] > 0) <=> (args.C > 0 /\ LiqBelowTarget)
        /\ ~LiqBelowTarget => ret = <<0, 0>>

\* C3: for all C >= 0, D >= 0, every penalty and target, the result satisfies
\* 0 <= seized <= C and 0 <= R <= D.
C3_ResultWithinPosition ==
    LiqReturned =>
        /\ 0 <= ret[1] /\ ret[1] <= args.C
        /\ 0 <= ret[2] /\ ret[2] <= args.D

\* C3 witness: a call where the cap on the repaid debt is what keeps R <= D
C3_Witness ==
    /\ LiqReturned /\ LiqBelowTarget
    /\ TDiv(args.C * 10000, 10000 + args.penalty) > args.D
    /\ ret = <<args.C, args.D>>

\* C4 as stated: with penalty_factor <= target_health and the position below
\* target, the entire position is liquidated: seized = C and R = D.
C4_WholePositionLiquidated ==
    (LiqReturned /\ 10000 + args.penalty <= args.target /\ LiqBelowTarget) =>
        ret = <<args.C, args.D>>

\* C4 amended: in that case all collateral is seized and the repaid debt is
\* what the collateral covers at the penalty price, capped at the debt:
\* seized = C and R = min(C * 10000 / penalty_factor, D).
C4_SeizeAllRepayCovered ==
    (LiqReturned /\ 10000 + args.penalty <= args.target /\ LiqBelowTarget) =>
        /\ ret[1] = args.C
        /\ ret[2] = Min(TDiv(args.C * 10000, 10000 + args.penalty), args.D)

\* C4 witness: a degenerate-penalty liquidation that repays less than the debt
C4_Witness ==
    /\ LiqReturned /\ LiqBelowTarget
    /\ 10000 + args.penalty <= args.target
    /\ ret[1] = args.C /\ args.C > 0
    /\ ret[2] < args.D

\* calculate_liquidation_bonus returning the protocol fee first
calculate_liquidation_bonus_FeeFirst(collateral_seized, debt_repaid, protocol_fee_bp) ==
    LET total_bonus == collateral_seized - debt_repaid
    IN IF total_bonus <= 0 THEN <<0, 0>>
       ELSE LET protocol_fee == TDiv(total_bonus * protocol_fee_bp, 10000)
                liquidator_bonus == total_bonus - protocol_fee
            IN <<protocol_fee, liquidator_bonus>>

\* returns (liquidator_bonus, protocol_fee)
calculate_liquidation_bonus(collateral_seized, debt_repaid, protocol_fee_bp) ==
    LET total_bonus == collateral_seized - debt_repaid
    IN IF total_bonus <= 0 THEN <<0, 0>>
       ELSE LET protocol_fee == TDiv(total_bonus * protocol_fee_bp, 10000)
                liquidator_bonus == total_bonus - protocol_fee
            IN <<liquidator_bonus, protocol_fee>>

\* protocol fees (bp) tried
ProtocolFees == {0, 1, 2000, 3333, 9999, 10000}

BonusArgs == [seized : Amounts, repaid : Amounts, fee_bp : ProtocolFees]

InitBonus ==
    /\ ContractsInit
    /\ pc = "call"
    /\ op = "calculate_liquidation_bonus"
    /\ args \in BonusArgs
    /\ ret = <<0, 0>>

EvalBonus ==
    /\ pc = "call"
    /\ op = "calculate_liquidation_bonus"
    /\ ret' = calculate_liquidation_bonus(args.seized, args.repaid, args.fee_bp)
    /\ pc' = "return"
    /\ UNCHANGED <<op, args, now, policyVars, poolVars, oracleVars, extVars>>

NextBonus == EvalBonus

SpecBonus == InitBonus /\ [][NextBonus]_vars

BonusReturned == pc = "return" /\ op = "calculate_liquidation_bonus"

\* C23: for every seized, repaid and fee_bp in 0..10000: if seized > repaid,
\* calculate_liquidation_bonus returns protocol_fee =
\* (seized - repaid)*fee_bp/10000 (truncated) and liquidator_bonus =
\* (seized - repaid) - protocol_fee, so the two parts are both >= 0 and sum
\* exactly to seized - repaid; if seized <= repaid it returns (0, 0).
C23_BonusSplit ==
    BonusReturned =>
        LET liquidator_bonus == ret[1]
            protocol_fee == ret[2]
            total == args.seized - args.repaid
        IN IF args.seized > args.repaid
           THEN /\ protocol_fee = (total * args.fee_bp) \div 10000
                /\ liquidator_bonus = total - protocol_fee
                /\ liquidator_bonus >= 0 /\ protocol_fee >= 0
                /\ liquidator_bonus + protocol_fee = total
           ELSE ret = <<0, 0>>

\* C23 witness: seized 1050, repaid 1000 and a fee of 2000 bp give the
\* liquidator 40 and the protocol 10
C23_Witness ==
    /\ BonusReturned
    /\ args = [seized |-> 1050, repaid |-> 1000, fee_bp |-> 2000]
    /\ ret = <<40, 10>>

\* current_discount interpolating over the percentage of the time elapsed
\* instead of its basis points
current_discount_CoarseProgress(params, current_time) ==
    IF current_time < params.start_time THEN params.start_discount
    ELSE LET elapsed == current_time - params.start_time
         IN IF elapsed >= params.duration THEN params.end_discount
            ELSE LET progress == TDiv(elapsed * 100, params.duration)
                     discount_range == params.end_discount - params.start_discount
                     additional_discount == TDiv(discount_range * progress, 100)
                 IN params.start_discount + AsU32(additional_discount)

\* DutchAuctionParams::current_discount, for start_discount <= end_discount
\* (the u32 subtraction of the range does not underflow)
current_discount(params, current_time) ==
    IF current_time < params.start_time THEN params.start_discount
    ELSE LET elapsed == current_time - params.start_time
         IN IF elapsed >= params.duration THEN params.end_discount
            ELSE LET progress == TDiv(elapsed * 10000, params.duration)
                     discount_range == params.end_discount - params.start_discount
                     additional_discount == TDiv(discount_range * progress, 10000)
                 IN params.start_discount + AsU32(additional_discount)

\* the ledger times at which the discount is asked
MaxAuctionTime == 12

\* auctions tried: discounts in basis points, durations and start times in
\* seconds
AuctionParams ==
    {p \in [start_discount : {0, 300, 500}, end_discount : {500, 1000},
            duration : {0, 1, 3, 7}, start_time : {0, 2}] :
        p.start_discount <= p.end_discount}

InitAuction ==
    /\ ContractsInit
    /\ pc = "call"
    /\ op = "current_discount"
    /\ args \in [params : AuctionParams, current_time : 0..MaxAuctionTime]
    /\ ret = 0

EvalAuction ==
    /\ pc = "call"
    /\ op = "current_discount"
    /\ ret' = current_discount(args.params, args.current_time)
    /\ pc' = "return"
    /\ UNCHANGED <<op, args, now, policyVars, poolVars, oracleVars, extVars>>

NextAuction == EvalAuction

SpecAuction == InitAuction /\ [][NextAuction]_vars

AuctionReturned == pc = "return" /\ op = "current_discount"

\* the interpolated discount of the claim at time t
InterpolatedDiscount(p, t) ==
    p.start_discount
      + ((p.end_discount - p.start_discount)
            * (((t - p.start_time) * 10000) \div p.duration)) \div 10000

\* non-decreasing in t and within [start_discount, end_discount]
DiscountMonotoneAndBounded ==
    LET p == args.params
    IN /\ p.start_discount <= ret /\ ret <= p.end_discount
       /\ ret <= current_discount(p, args.current_time + 1)

\* C24 as stated: for every DutchAuctionParams with start_discount <=
\* end_discount, current_discount(t) equals start_discount for
\* t <= start_time, end_discount for t >= start_time + duration, and
\* start_discount + (end_discount - start_discount)
\*   * ((t - start_time)*10000/duration) / 10000 in between; it is therefore
\* non-decreasing in t and always within [start_discount, end_discount].
C24_DiscountInterpolation ==
    AuctionReturned =>
        LET p == args.params
            t == args.current_time
        IN /\ t <= p.start_time => ret = p.start_discount
           /\ t >= p.start_time + p.duration => ret = p.end_discount
           /\ (p.start_time < t /\ t < p.start_time + p.duration)
                 => ret = InterpolatedDiscount(p, t)
           /\ DiscountMonotoneAndBounded

\* C24 amended: current_discount(t) equals start_discount for t < start_time,
\* end_discount for t >= start_time + duration (which, for duration = 0,
\* includes t = start_time), and the interpolated value for
\* start_time <= t < start_time + duration, which is start_discount at
\* t = start_time; it is non-decreasing in t and within
\* [start_discount, end_discount].
C24_DiscountInterpolationFromStart ==
    AuctionReturned =>
        LET p == args.params
            t == args.current_time
        IN /\ t < p.start_time => ret = p.start_discount
           /\ t >= p.start_time + p.duration => ret = p.end_discount
           /\ (p.start_time <= t /\ t < p.start_time + p.duration)
                 => ret = InterpolatedDiscount(p, t)
           /\ (t = p.start_time /\ p.duration > 0) => ret = p.start_discount
           /\ DiscountMonotoneAndBounded

\* C24 witness: a discount strictly inside the range part of the way through
\* an auction, where the progress in basis points is truncated
C24_Witness ==
    /\ AuctionReturned
    /\ args.params.duration = 7
    /\ args.current_time - args.params.start_time = 3
    /\ args.params.start_discount < ret /\ ret < args.params.end_discount

----------------------------------------------------------------------------
(* risk-engine/src/stop_loss.rs                                            *)

\* the clamp without its upper end
ClampSwap_NoUpper(swap_amount, current_collateral) ==
    IF swap_amount < 0 THEN 0 ELSE swap_amount

\* the clamp of the swap amount to 0 .. current_collateral
ClampSwap(swap_amount, current_collateral) ==
    IF swap_amount > current_collateral THEN current_collateral
    ELSE IF swap_amount < 0 THEN 0
    ELSE swap_amount

\* returns the amount of collateral to swap
calculate_swap_amount(current_collateral, current_debt, current_health, target_health) ==
    IF current_debt = 0 \/ current_health >= target_health THEN 0
    ELSE LET target_normalized == TDiv(target_health * current_debt, 10000)
             numerator == target_normalized - current_collateral
             denominator == target_health - 10000
         IN IF denominator <= 0 THEN 0
            ELSE ClampSwap(TDiv(numerator * 10000, denominator),
                           current_collateral)

\* target health factors (bp) tried by the stop-loss calls
SwapTargets == {9500, 10000, 10200, 10500, 11000, 12000}

\* the health passed with a position: the position's own health factor, or
\* (the function does not check it) one of a few unrelated values
HealthsFor(C, D) ==
    (IF D > 0 THEN {TDiv(C * 10000, D)} ELSE {}) \cup {0, 10000, 12000}

\* debts below 0: the function takes any i128
NegativeDebts == {-1000, -1}

InitStopLoss ==
    /\ ContractsInit
    /\ pc = "call"
    /\ op = "calculate_swap_amount"
    /\ \E C \in Amounts, D \in Amounts \cup NegativeDebts, target \in SwapTargets :
         \E health \in HealthsFor(C, D) :
            args = [C |-> C, D |-> D, health |-> health, target |-> target]
    /\ ret = 0

EvalStopLoss ==
    /\ pc = "call"
    /\ op = "calculate_swap_amount"
    /\ ret' = calculate_swap_amount(args.C, args.D, args.health, args.target)
    /\ pc' = "return"
    /\ UNCHANGED <<op, args, now, policyVars, poolVars, oracleVars, extVars>>

NextStopLoss == EvalStopLoss

SpecStopLoss == InitStopLoss /\ [][NextStopLoss]_vars

SwapReturned == pc = "return" /\ op = "calculate_swap_amount"

\* C5: for C > D > 0, current_health = C*10000/D below target_health and
\* target_health > 10000, swapping the returned S at 1:1 leaves a health
\* factor (C - S)*10000/(D - S) of at least target_health.
C5_SwapReachesTarget ==
    (/\ SwapReturned
     /\ args.C > args.D /\ args.D > 0
     /\ args.health = TDiv(args.C * 10000, args.D)
     /\ args.health < args.target
     /\ args.target > 10000) =>
        /\ args.D - ret > 0
        /\ TDiv((args.C - ret) * 10000, args.D - ret) >= args.target

\* C25: for all C >= 0 and all D, current_health and target_health,
\* calculate_swap_amount returns S with 0 <= S <= C, and returns exactly 0
\* whenever D = 0, current_health >= target_health, or target_health <= 10000.
C25_SwapWithinCollateral ==
    (SwapReturned /\ args.C >= 0) =>
        /\ 0 <= ret /\ ret <= args.C
        /\ (args.D = 0 \/ args.health >= args.target \/ args.target <= 10000)
              => ret = 0

\* C25 witness: a position whose computed swap exceeds the collateral and is
\* clamped to it
C25_Witness ==
    /\ SwapReturned
    /\ args.C > 0 /\ args.D > 0
    /\ args.health < args.target /\ args.target > 10000
    /\ ret = args.C
    /\ TDiv((TDiv(args.target * args.D, 10000) - args.C) * 10000,
            args.target - 10000) > args.C

----------------------------------------------------------------------------
(* risk-engine: is_liquidatable and should_trigger_stop_loss               *)

\* liquidation.rs, is_liquidatable
is_liquidatable(health_factor, liquidation_threshold) ==
    health_factor < liquidation_threshold

\* should_trigger_stop_loss leaving the trigger threshold itself out
should_trigger_stop_loss_BelowTrigger(health_factor, trigger_threshold, liquidation_threshold) ==
    health_factor < trigger_threshold /\ health_factor >= liquidation_threshold

\* stop_loss.rs, should_trigger_stop_loss
should_trigger_stop_loss(health_factor, trigger_threshold, liquidation_threshold) ==
    health_factor <= trigger_threshold /\ health_factor >= liquidation_threshold

\* health factors tried: 9700 bp and up in steps of 100, and the extremes
MaxHealthSteps == 14

TriggerHealths ==
    {9700 + 100 * k : k \in 0..MaxHealthSteps} \cup {-1, 0, I128_MAX}

\* thresholds (bp) tried, as trigger and as liquidation threshold
TriggerThresholds == {10000, 10200, 10500}

TriggerArgs ==
    [health : TriggerHealths, trigger : TriggerThresholds,
     liquidation : TriggerThresholds]

InitTriggers ==
    /\ ContractsInit
    /\ pc = "call"
    /\ op \in {"is_liquidatable", "should_trigger_stop_loss"}
    /\ args \in TriggerArgs
    /\ ret = FALSE

EvalIsLiquidatable ==
    /\ pc = "call"
    /\ op = "is_liquidatable"
    /\ ret' = is_liquidatable(args.health, args.liquidation)
    /\ pc' = "return"
    /\ UNCHANGED <<op, args, now, policyVars, poolVars, oracleVars, extVars>>

EvalShouldTrigger ==
    /\ pc = "call"
    /\ op = "should_trigger_stop_loss"
    /\ ret' = should_trigger_stop_loss(args.health, args.trigger,
                                       args.liquidation)
    /\ pc' = "return"
    /\ UNCHANGED <<op, args, now, policyVars, poolVars, oracleVars, extVars>>

NextTriggers == EvalIsLiquidatable \/ EvalShouldTrigger

SpecTriggers == InitTriggers /\ [][NextTriggers]_vars

\* C22: for every health value h and thresholds with
\* liquidation_threshold <= trigger_threshold, is_liquidatable holds exactly
\* when h < liquidation_threshold, should_trigger_stop_loss holds exactly
\* when liquidation_threshold <= h <= trigger_threshold (both bounds
\* inclusive), and the two are never true for the same h.
C22_TriggerAndLiquidationDisjoint ==
    (pc = "return" /\ args.liquidation <= args.trigger) =>
        /\ op = "is_liquidatable" =>
              (ret <=> args.health < args.liquidation)
        /\ op = "should_trigger_stop_loss" =>
              (ret <=> (args.liquidation <= args.health
                          /\ args.health <= args.trigger))
        /\ ~(/\ is_liquidatable(args.health, args.liquidation)
             /\ should_trigger_stop_loss(args.health, args.trigger,
                                         args.liquidation))

\* C22 witness: the stop-loss triggers at a health equal to the trigger
\* threshold, above the liquidation threshold
C22_Witness ==
    /\ pc = "return" /\ op = "should_trigger_stop_loss"
    /\ ret = TRUE
    /\ args.health = args.trigger
    /\ args.liquidation < args.trigger

----------------------------------------------------------------------------
(* vantis-pool/src/health.rs                                               *)

HEALTH_FACTOR_HEALTHY == 11000

HEALTH_FACTOR_CRITICAL == 10200

HEALTH_FACTOR_LIQUIDATION == 10000

\* the status ladder with Warning starting at HEALTH_FACTOR_WARNING (10500)
HealthStatusOf_WarningAt10500(value) ==
    IF value >= HEALTH_FACTOR_HEALTHY THEN "Healthy"
    ELSE IF value >= 10500 THEN "Warning"
    ELSE IF value >= HEALTH_FACTOR_LIQUIDATION THEN "Critical"
    ELSE "Liquidatable"

\* the status ladder of HealthFactor::calculate
HealthStatusOf(value) ==
    IF value >= HEALTH_FACTOR_HEALTHY THEN "Healthy"
    ELSE IF value >= HEALTH_FACTOR_CRITICAL THEN "Warning"
    ELSE IF value >= HEALTH_FACTOR_LIQUIDATION THEN "Critical"
    ELSE "Liquidatable"

\* the collateral value above what the Healthy threshold needs
AvailableToWithdraw(collateral_value, debt_value) ==
    IF debt_value = 0 THEN collateral_value
    ELSE LET min_collateral == TDiv(debt_value * HEALTH_FACTOR_HEALTHY, 10000)
         IN IF collateral_value > min_collateral
            THEN collateral_value - min_collateral
            ELSE 0

\* HealthFactor::calculate
HealthFactor_calculate(collateral_value, debt_value) ==
    LET value == IF debt_value = 0 THEN I128_MAX
                 ELSE TDiv(collateral_value * 10000, debt_value)
        status == HealthStatusOf(value)
        shortfall ==
            IF value < HEALTH_FACTOR_HEALTHY /\ debt_value > 0
            THEN LET needed == TDiv(debt_value * HEALTH_FACTOR_HEALTHY, 10000)
                 IN IF needed > collateral_value
                    THEN needed - collateral_value
                    ELSE 0
            ELSE 0
        available_to_withdraw == AvailableToWithdraw(collateral_value, debt_value)
    IN [value |-> value, status |-> status,
        collateral_value |-> collateral_value, debt_value |-> debt_value,
        shortfall |-> shortfall,
        available_to_withdraw |-> available_to_withdraw]

InitHealth ==
    /\ ContractsInit
    /\ pc = "call"
    /\ op = "HealthFactor::calculate"
    /\ args \in [C : Amounts, D : Amounts]
    /\ ret = HealthFactor_calculate(0, 0)

EvalHealth ==
    /\ pc = "call"
    /\ op = "HealthFactor::calculate"
    /\ ret' = HealthFactor_calculate(args.C, args.D)
    /\ pc' = "return"
    /\ UNCHANGED <<op, args, now, policyVars, poolVars, oracleVars, extVars>>

NextHealth == EvalHealth

SpecHealth == InitHealth /\ [][NextHealth]_vars

HealthReturned == pc = "return" /\ op = "HealthFactor::calculate"

\* C7: for C >= 0 and D > 0 with HealthFactor::calculate(C, D) Healthy,
\* withdrawing the reported available_to_withdraw keeps the position Healthy:
\* HealthFactor::calculate(C - available_to_withdraw, D) is Healthy
\* (value >= 11000).
C7_WithdrawAvailableStaysHealthy ==
    (HealthReturned /\ args.D > 0 /\ ret.status = "Healthy") =>
        LET after == HealthFactor_calculate(args.C - ret.available_to_withdraw,
                                            args.D)
        IN after.status = "Healthy" /\ after.value >= 11000

\* C21: HealthFactor::calculate(C, D) sets value = C*10000/D when D != 0 and
\* value = i128::MAX when D = 0, and sets status to Healthy iff
\* value >= 11000, Warning iff 10200 <= value < 11000, Critical iff
\* 10000 <= value < 10200 and Liquidatable iff value < 10000.
C21_HealthValueAndStatus ==
    HealthReturned =>
        /\ args.D # 0 => ret.value = (args.C * 10000) \div args.D
        /\ args.D = 0 => ret.value = I128_MAX
        /\ ret.status \in {"Healthy", "Warning", "Critical", "Liquidatable"}
        /\ ret.status = "Healthy" <=> ret.value >= 11000
        /\ ret.status = "Warning" <=> (10200 <= ret.value /\ ret.value < 11000)
        /\ ret.status = "Critical" <=> (10000 <= ret.value /\ ret.value < 10200)
        /\ ret.status = "Liquidatable" <=> ret.value < 10000

\* C21 witness: a position with debt whose value lies in the lower part of
\* the Warning band, below 10500
C21_Witness ==
    /\ HealthReturned
    /\ args.D > 0
    /\ ret.status = "Warning"
    /\ ret.value < 10500

----------------------------------------------------------------------------
(* risk-engine/src/volatility.rs                                           *)

RECURSIVE NewtonLoop(_, _, _)
\* `while y < x { x = y; y = (x + n / x) / 2; }`, returning x
NewtonLoop(n, x, y) ==
    IF y < x THEN NewtonLoop(n, y, TDiv(y + TDiv(n, y), 2)) ELSE x

\* integer square root by Newton's method
integer_sqrt(n) ==
    IF n <= 0 THEN 0
    ELSE IF n = 1 THEN 1
    ELSE NewtonLoop(n, n, TDiv(n + 1, 2))

\* i128::saturating_sub.  Both operands come from u32 values, so the
\* difference is within the i128 range and the subtraction never saturates.
SaturatingSub(a, b) == a - b

\* adjustment = k * sigma * sqrt(T), normalised, with the 1000 of the scale of
\* sqrt_t left out of the divisor
VolatilityAdjustment_Unscaled(volatility, k_factor, time_horizon_days) ==
    LET sqrt_days == integer_sqrt(time_horizon_days)
        sqrt_t == TDiv(sqrt_days * 1000, 19)
    IN TDiv(k_factor * volatility * sqrt_t, 10000)

\* adjustment = k * sigma * sqrt(T), normalised
VolatilityAdjustment(volatility, k_factor, time_horizon_days) ==
    LET sqrt_days == integer_sqrt(time_horizon_days)
        sqrt_t == TDiv(sqrt_days * 1000, 19)
    IN TDiv(k_factor * volatility * sqrt_t, 1000 * 10000)

calculate_adjusted_ltv(base_ltv, volatility, k_factor, time_horizon_days, min_ltv) ==
    LET adjustment == VolatilityAdjustment(volatility, k_factor,
                                           time_horizon_days)
        adjusted == SaturatingSub(base_ltv, adjustment)
    IN IF adjusted < min_ltv THEN min_ltv ELSE AsU32(adjusted)

\* time horizons 0..MaxDays, and a quarter and a year
MaxDays == 31

Days == (0..MaxDays) \cup {90, 365}

\* k * sigma * sqrt_t stays below 2^31 for these values
LtvArgs ==
    [base_ltv : {0, 3000, 5000, 7500, 10000},
     volatility : {0, 1, 2500, 5000, 10000},
     k_factor : {0, 1, 100, 200},
     days : Days,
     min_ltv : {0, 3000, 8000}]

InitLtv ==
    /\ ContractsInit
    /\ pc = "call"
    /\ op = "calculate_adjusted_ltv"
    /\ args \in LtvArgs
    /\ ret = 0

EvalLtv ==
    /\ pc = "call"
    /\ op = "calculate_adjusted_ltv"
    /\ ret' = calculate_adjusted_ltv(args.base_ltv, args.volatility,
                                     args.k_factor, args.days, args.min_ltv)
    /\ pc' = "return"
    /\ UNCHANGED <<op, args, now, policyVars, poolVars, oracleVars, extVars>>

NextLtv == EvalLtv

SpecLtv == InitLtv /\ [][NextLtv]_vars

LtvReturned == pc = "return" /\ op = "calculate_adjusted_ltv"

\* floor(sqrt(n)), by its defining property
FloorSqrt(n) == CHOOSE r \in 0..n : r * r <= n /\ n < (r + 1) * (r + 1)

\* C10: calculate_adjusted_ltv equals
\* max(min_ltv, base_ltv - (k_factor * volatility * (integer_sqrt(days) * 1000
\* / 19)) / 10000000) with truncating division; so it returns base_ltv when
\* volatility = 0 and base_ltv >= min_ltv, never less than min_ltv, and never
\* more than base_ltv when base_ltv >= min_ltv.
C10_AdjustedLtvFormula ==
    LtvReturned =>
        /\ ret = Max(args.min_ltv,
                     args.base_ltv
                       - (args.k_factor * args.volatility
                            * ((FloorSqrt(args.days) * 1000) \div 19))
                          \div 10000000)
        /\ (args.volatility = 0 /\ args.base_ltv >= args.min_ltv)
              => ret = args.base_ltv
        /\ ret >= args.min_ltv
        /\ args.base_ltv >= args.min_ltv => ret <= args.base_ltv

\* C10 witness: a call whose adjustment is positive and leaves the result
\* strictly between the floor and the base LTV
C10_Witness ==
    /\ LtvReturned
    /\ args.volatility > 0 /\ args.k_factor > 0
    /\ args.min_ltv < ret /\ ret < args.base_ltv

\* integer_sqrt called with chosen arguments.  At n = i128::MAX the sum
\* `x + 1` of line 127 leaves the i128 range: a build with overflow checks
\* aborts the call, one without them wraps the sum to i128::MIN and runs the
\* loop from y = i128::MIN / 2.
I128_MIN == -I128_MAX - 1

IntegerSqrtOutcomes(n) ==
    IF n = I128_MAX
    THEN {<<"Panic", 0>>, <<"Ok", NewtonLoop(n, n, -(I128_MAX \div 2) - 1)>>}
    ELSE {<<"Ok", integer_sqrt(n)>>}

\* arguments tried: -3 .. MaxSqrtArg, and values up to the end of the range
MaxSqrtArg == 300

SqrtArgs ==
    (-3..MaxSqrtArg) \cup {I128_MIN + 1, 46340 * 46340 - 1, 46340 * 46340,
                           I128_MAX - 1, I128_MAX}

InitSqrt ==
    /\ ContractsInit
    /\ pc = "call"
    /\ op = "integer_sqrt"
    /\ args \in [n : SqrtArgs]
    /\ ret = <<"Ok", 0>>

EvalSqrt ==
    /\ pc = "call"
    /\ op = "integer_sqrt"
    /\ ret' \in IntegerSqrtOutcomes(args.n)
    /\ pc' = "return"
    /\ UNCHANGED <<op, args, now, policyVars, poolVars, oracleVars, extVars>>

NextSqrt == EvalSqrt

SpecSqrt == InitSqrt /\ [][NextSqrt]_vars

----------------------------------------------------------------------------
(* Natural numbers beyond TLC's integers                                   *)

\* The i128 values of calculate_volatility reach past 2^31, where TLC's
\* integers end, long before the `as u32` of its result loses anything.
\* Such values are kept as sequences of limbs, least significant first,
\* each limb in 0 .. LimbBase - 1 and the last one not 0; <<>> is 0.  Values
\* that TLC's integers can hold are computed with them.
LimbBase == 32768

RECURSIVE WNorm(_)
\* drops the most significant limbs that are 0
WNorm(w) ==
    IF w = <<>> THEN <<>>
    ELSE IF w[Len(w)] = 0 THEN WNorm(SubSeq(w, 1, Len(w) - 1))
    ELSE w

RECURSIVE WFromInt(_)
\* the limbs of an integer n >= 0
WFromInt(n) ==
    IF n = 0 THEN <<>> ELSE <<n % LimbBase>> \o WFromInt(n \div LimbBase)

\* the value is below 2^31
WFits(w) == Len(w) <= 2 \/ (Len(w) = 3 /\ w[3] < 2)

\* the value is below 2^30: two such values add up within TLC's integers
WSmall(w) == Len(w) <= 2

\* the integer of a value below 2^31; a larger one stops the evaluation
WToInt(w) ==
    IF ~WFits(w) THEN CHOOSE beyond \in {} : TRUE
    ELSE (IF Len(w) >= 1 THEN w[1] ELSE 0)
           + (IF Len(w) >= 2 THEN w[2] * LimbBase ELSE 0)
           + (IF Len(w) >= 3 THEN w[3] * LimbBase * LimbBase ELSE 0)

\* limb i of w, 0 past its length
Limb(w, i) == IF i <= Len(w) THEN w[i] ELSE 0

RECURSIVE WAddFrom(_, _, _, _)
WAddFrom(a, b, i, carry) ==
    IF i > Len(a) /\ i > Len(b)
    THEN (IF carry = 0 THEN <<>> ELSE <<carry>>)
    ELSE LET s == Limb(a, i) + Limb(b, i) + carry
         IN <<s % LimbBase>> \o WAddFrom(a, b, i + 1, s \div LimbBase)

\* a + b
WAdd(a, b) ==
    IF WSmall(a) /\ WSmall(b) THEN WFromInt(WToInt(a) + WToInt(b))
    ELSE WAddFrom(a, b, 1, 0)

RECURSIVE WSubFrom(_, _, _, _)
WSubFrom(a, b, i, borrowed) ==
    IF i > Len(a) THEN <<>>
    ELSE LET d == Limb(a, i) - Limb(b, i) - borrowed
         IN <<d % LimbBase>> \o WSubFrom(a, b, i + 1, IF d < 0 THEN 1 ELSE 0)

\* a - b, for a >= b
WSub(a, b) ==
    IF WFits(a) THEN WFromInt(WToInt(a) - WToInt(b))
    ELSE WNorm(WSubFrom(a, b, 1, 0))

RECURSIVE WLessFrom(_, _, _)
WLessFrom(a, b, i) ==
    IF i = 0 THEN FALSE
    ELSE IF a[i] # b[i] THEN a[i] < b[i]
    ELSE WLessFrom(a, b, i - 1)

\* a < b
WLess(a, b) ==
    IF Len(a) # Len(b) THEN Len(a) < Len(b) ELSE WLessFrom(a, b, Len(a))

RECURSIVE WMulSmallFrom(_, _, _, _)
WMulSmallFrom(a, k, i, carry) ==
    IF i > Len(a) THEN (IF carry = 0 THEN <<>> ELSE <<carry>>)
    ELSE LET p == a[i] * k + carry
         IN <<p % LimbBase>> \o WMulSmallFrom(a, k, i + 1, p \div LimbBase)

\* a * k, for 0 <= k < LimbBase
WMulSmall(a, k) == IF k = 0 THEN <<>> ELSE WMulSmallFrom(a, k, 1, 0)

RECURSIVE WMul(_, _)
\* a * b
WMul(a, b) ==
    IF a = <<>> \/ b = <<>> THEN <<>>
    ELSE IF Len(a) = 1 /\ Len(b) = 1 THEN WFromInt(a[1] * b[1])
    ELSE LET upper == WMul(a, Tail(b))
         IN WAdd(WMulSmall(a, Head(b)),
                 IF upper = <<>> THEN <<>> ELSE <<0>> \o upper)

RECURSIVE WDivSmallFrom(_, _, _, _)
WDivSmallFrom(a, k, i, r) ==
    IF i = 0 THEN <<>>
    ELSE LET cur == r * LimbBase + a[i]
         IN WDivSmallFrom(a, k, i - 1, cur % k) \o <<cur \div k>>

\* a / k, for 0 < k < LimbBase
WDivSmall(a, k) ==
    IF WFits(a) THEN WFromInt(WToInt(a) \div k)
    ELSE WNorm(WDivSmallFrom(a, k, Len(a), 0))

\* a % k, for 0 < k < LimbBase
WModSmall(a, k) == WToInt(WSub(a, WMulSmall(WDivSmall(a, k), k)))

RECURSIVE QuotDigit(_, _, _, _)
\* the largest q in lo .. hi - 1 with b * q <= cur, given b * lo <= cur
QuotDigit(cur, b, lo, hi) ==
    IF hi - lo = 1 THEN lo
    ELSE LET mid == (lo + hi) \div 2
         IN IF WLess(cur, WMulSmall(b, mid)) THEN QuotDigit(cur, b, lo, mid)
            ELSE QuotDigit(cur, b, mid, hi)

RECURSIVE WDivFrom(_, _, _, _)
\* long division, from limb i of a down, r being the remainder so far
WDivFrom(a, b, i, r) ==
    IF i = 0 THEN <<>>
    ELSE LET cur == WNorm(<<a[i]>> \o r)
             q == IF WLess(cur, b) THEN 0 ELSE QuotDigit(cur, b, 1, LimbBase)
         IN WDivFrom(a, b, i - 1, WSub(cur, WMulSmall(b, q))) \o <<q>>

\* a / b, for b > 0
WDiv(a, b) ==
    IF WLess(a, b) THEN <<>>
    ELSE IF WFits(a) THEN WFromInt(WToInt(a) \div WToInt(b))
    ELSE WNorm(WDivFrom(a, b, Len(a), <<>>))

\* the low 32 bits of a value: 2^32 is 4 * LimbBase^2
WLow32(w) == WNorm(<<Limb(w, 1), Limb(w, 2), Limb(w, 3) % 4>>)

----------------------------------------------------------------------------
(* oracle-adapter/src/lib.rs                                               *)

\* the adapter's own integer_sqrt (Newton's method)
OracleIntegerSqrt(n) ==
    IF n <= 0 THEN 0
    ELSE IF n = 1 THEN 1
    ELSE NewtonLoop(n, n, TDiv(n + 1, 2))

RECURSIVE ReturnsFrom(_, _, _)
\* calculate_volatility, the loop `for i in 1..len`: the returns in basis
\* points over consecutive pairs of the last len prices, from pair i on
ReturnsFrom(prices, len, i) ==
    IF i >= len THEN <<>>
    ELSE LET prev == prices[Len(prices) - len + i]
             curr == prices[Len(prices) - len + i + 1]
         IN (IF prev > 0 THEN <<TDiv((curr - prev) * 10000, prev)>> ELSE <<>>)
               \o ReturnsFrom(prices, len, i + 1)

RECURSIVE SeqSum(_)
SeqSum(seq) == IF seq = <<>> THEN 0 ELSE Head(seq) + SeqSum(Tail(seq))

RECURSIVE SumSquaredDiff(_, _)
\* `variance_sum += diff * diff` over the returns; the squares pass 2^31
SumSquaredDiff(seq, mean) ==
    IF seq = <<>> THEN <<>>
    ELSE LET diff == Head(seq) - mean
             size == WFromInt(IF diff < 0 THEN -diff ELSE diff)
         IN WAdd(WMul(size, size), SumSquaredDiff(Tail(seq), mean))

\* the mean of the squared deviations, over all collected returns
VarianceOf(returns, mean) ==
    WDivSmall(SumSquaredDiff(returns, mean), Len(returns))

RECURSIVE WideNewtonLoop(_, _, _)
\* integer_sqrt, `while y < x { x = y; y = (x + n / x) / 2; }`
WideNewtonLoop(n, x, y) ==
    IF WLess(y, x)
    THEN WideNewtonLoop(n, y, WDivSmall(WAdd(y, WDiv(n, y)), 2))
    ELSE x

\* integer_sqrt of a variance
WideIntegerSqrt(n) ==
    IF n = <<>> THEN <<>>
    ELSE IF n = <<1>> THEN <<1>>
    ELSE WideNewtonLoop(n, n, WDivSmall(WAdd(n, <<1>>), 2))

\* calculate_volatility: the u32 it returns, as limbs.  `annualized as u32`
\* keeps the low 32 bits of std_dev * 19.
VolatilityLimbs(prices, period) ==
    IF Len(prices) < 2 THEN <<>>
    ELSE LET len == Min(Len(prices), period)
             returns == ReturnsFrom(prices, len, 1)
         IN IF returns = <<>> THEN <<>>
            ELSE LET mean == TDiv(SeqSum(returns), Len(returns))
                     variance == VarianceOf(returns, mean)
                     std_dev == WideIntegerSqrt(variance)
                     annualized == WMulSmall(std_dev, 19)
                 IN WLow32(annualized)

\* calculate_volatility, for results below 2^31
calculate_volatility(prices, period) == WToInt(VolatilityLimbs(prices, period))

\* the trimming loop popping the newest entry instead
TrimHistory_DropNewest(history) ==
    IF Len(history) > 30 THEN SubSeq(history, 1, 30) ELSE history

RECURSIVE TrimHistory(_)
\* `while price_history.len() > 30 { pop_front() }`
TrimHistory(history) ==
    IF Len(history) > 30 THEN TrimHistory(Tail(history)) ELSE history

\* the 7-day volatility after a push: recomputed from 7 prices once there
\* are that many
Volatility7d(old, history) ==
    IF Len(history) >= 7 THEN calculate_volatility(history, 7) ELSE old

\* the 30-day volatility recomputed as early as the 7-day one
Volatility30d_FromSeven(old, history) ==
    IF Len(history) >= 7 THEN calculate_volatility(history, 30) ELSE old

\* the 30-day volatility after a push
Volatility30d(old, history) ==
    IF Len(history) >= 30 THEN calculate_volatility(history, 30) ELSE old

\* update_price_history: the VolatilityData it stores for the asset
update_price_history(asset, price) ==
    LET stored == IF oracleVolatility[asset].present
                  THEN oracleVolatility[asset] ELSE FreshVolatility
        history == TrimHistory(Append(stored.price_history, price))
    IN [present |-> TRUE,
        volatility_30d |-> Volatility30d(stored.volatility_30d, history),
        volatility_7d |-> Volatility7d(stored.volatility_7d, history),
        last_updated |-> now,
        price_history |-> history]

\* is_asset_supported
is_asset_supported(asset) ==
    \E i \in 1..Len(oracleAssets) : oracleAssets[i] = asset

\* an oracle entry point returns `result`, a pair <<status, value>>
OracleCall(name, arguments, result) ==
    /\ op' = name
    /\ args' = arguments
    /\ ret' = result
    /\ pc' = "return"
    /\ UNCHANGED <<now, policyVars, poolVars, extVars>>

add_asset(caller, symbol) ==
    LET arguments == [caller |-> caller, symbol |-> symbol] IN
    IF caller # OracleAdmin
    THEN /\ OracleCall("add_asset", arguments, <<"Unauthorized", 0>>)
         /\ UNCHANGED oracleVars
    ELSE /\ OracleCall("add_asset", arguments, <<"Ok", 0>>)
         /\ oracleAssets' = Append(oracleAssets, symbol)
         /\ oracleVolatility' =
                [oracleVolatility EXCEPT ![symbol] = FreshVolatility]
         /\ pushed' = [pushed EXCEPT ![symbol] = <<>>]
         /\ UNCHANGED <<oraclePrices, stalenessThreshold, lastPush>>

\* get_price calling a price stale as soon as its age reaches the threshold
GetPriceResult_StaleAtThreshold(asset) ==
    IF ~is_asset_supported(asset) THEN <<"AssetNotSupported", 0>>
    ELSE IF ~oraclePrices[asset].present THEN <<"InvalidPrice", 0>>
    ELSE IF now - oraclePrices[asset].timestamp >= stalenessThreshold
    THEN <<"StalePrice", 0>>
    ELSE <<"Ok", [price |-> oraclePrices[asset].price,
                  timestamp |-> oraclePrices[asset].timestamp]>>

\* get_price: the Result it returns in the current state
GetPriceResult(asset) ==
    IF ~is_asset_supported(asset) THEN <<"AssetNotSupported", 0>>
    ELSE IF ~oraclePrices[asset].present THEN <<"InvalidPrice", 0>>
    ELSE IF now - oraclePrices[asset].timestamp > stalenessThreshold
    THEN <<"StalePrice", 0>>
    ELSE <<"Ok", [price |-> oraclePrices[asset].price,
                  timestamp |-> oraclePrices[asset].timestamp]>>

get_price(asset) ==
    /\ OracleCall("get_price", [asset |-> asset], GetPriceResult(asset))
    /\ UNCHANGED oracleVars

\* update_price with `price < 0` for `price <= 0`
update_price_ZeroAccepted(caller, asset, price) ==
    LET arguments == [caller |-> caller, asset |-> asset, price |-> price] IN
    IF ~is_asset_supported(asset)
    THEN /\ OracleCall("update_price", arguments, <<"AssetNotSupported", 0>>)
         /\ UNCHANGED oracleVars
    ELSE IF price < 0
    THEN /\ OracleCall("update_price", arguments, <<"InvalidPrice", 0>>)
         /\ UNCHANGED oracleVars
    ELSE /\ OracleCall("update_price", arguments, <<"Ok", 0>>)
         /\ oraclePrices' = [oraclePrices EXCEPT ![asset] =
                [present |-> TRUE, price |-> price, timestamp |-> now]]
         /\ oracleVolatility' = [oracleVolatility EXCEPT ![asset] =
                update_price_history(asset, price)]
         /\ pushed' = [pushed EXCEPT ![asset] = Append(@, price)]
         /\ lastPush' = [lastPush EXCEPT ![asset] =
                [present |-> TRUE, price |-> price, timestamp |-> now]]
         /\ UNCHANGED <<oracleAssets, stalenessThreshold>>

update_price(caller, asset, price) ==
    LET arguments == [caller |-> caller, asset |-> asset, price |-> price] IN
    IF ~is_asset_supported(asset)
    THEN /\ OracleCall("update_price", arguments, <<"AssetNotSupported", 0>>)
         /\ UNCHANGED oracleVars
    ELSE IF price <= 0
    THEN /\ OracleCall("update_price", arguments, <<"InvalidPrice", 0>>)
         /\ UNCHANGED oracleVars
    ELSE /\ OracleCall("update_price", arguments, <<"Ok", 0>>)
         /\ oraclePrices' = [oraclePrices EXCEPT ![asset] =
                [present |-> TRUE, price |-> price, timestamp |-> now]]
         /\ oracleVolatility' = [oracleVolatility EXCEPT ![asset] =
                update_price_history(asset, price)]
         /\ pushed' = [pushed EXCEPT ![asset] = Append(@, price)]
         /\ lastPush' = [lastPush EXCEPT ![asset] =
                [present |-> TRUE, price |-> price, timestamp |-> now]]
         /\ UNCHANGED <<oracleAssets, stalenessThreshold>>

\* the floor calculate_safe_borrow applies: `min_ltv` is 3000
FinalLtv(adjusted_ltv) == IF adjusted_ltv < 3000 THEN 3000 ELSE adjusted_ltv

\* calculate_safe_borrow: the Result it returns in the current state
SafeBorrowResult(asset, collateral_value, base_ltv, k_factor, time_horizon_days) ==
    IF ~is_asset_supported(asset) THEN <<"AssetNotSupported", 0>>
    ELSE IF ~oracleVolatility[asset].present THEN <<"InsufficientHistory", 0>>
    ELSE LET sigma == oracleVolatility[asset].volatility_30d
             sqrt_t == TDiv(OracleIntegerSqrt(time_horizon_days) * 1000, 19)
             adjustment == TDiv(k_factor * sigma * sqrt_t, 1000 * 10000)
             adjusted_ltv == SaturatingSub(base_ltv, adjustment)
             final_ltv == FinalLtv(adjusted_ltv)
         IN <<"Ok", TDiv(collateral_value * final_ltv, 10000)>>

calculate_safe_borrow(asset, collateral_value, base_ltv, k_factor, time_horizon_days) ==
    /\ OracleCall("calculate_safe_borrow",
                  [asset |-> asset, collateral_value |-> collateral_value,
                   base_ltv |-> base_ltv, k_factor |-> k_factor,
                   time_horizon_days |-> time_horizon_days],
                  SafeBorrowResult(asset, collateral_value, base_ltv, k_factor,
                                   time_horizon_days))
    /\ UNCHANGED oracleVars

set_staleness_threshold(caller, threshold_seconds) ==
    LET arguments == [caller |-> caller,
                      threshold_seconds |-> threshold_seconds] IN
    IF caller # OracleAdmin
    THEN /\ OracleCall("set_staleness_threshold", arguments,
                       <<"Unauthorized", 0>>)
         /\ UNCHANGED oracleVars
    ELSE /\ OracleCall("set_staleness_threshold", arguments, <<"Ok", 0>>)
         /\ stalenessThreshold' = threshold_seconds
         /\ UNCHANGED <<oracleAssets, oraclePrices, oracleVolatility, pushed,
                        lastPush>>

\* the ledger closes: the timestamp moves on by one second
OracleAdvanceTime ==
    /\ now' = now + 1
    /\ UNCHANGED <<callVars, policyVars, poolVars, oracleVars, extVars>>

\* bounds of the oracle runs: entries of the asset list, successful pushes
\* over all assets, and the ledger time in seconds
MaxOracleAssetList == 2

MaxPushes == 3

MaxOracleTime == 3

OracleCallers == {OracleAdmin, "stranger"}

\* prices pushed (0 and -1 are offered too), and thresholds set by the admin
PushPrices == {100, 110}

Thresholds == {1}

SafeBorrowArgs ==
    [collateral_value : {0, 1000}, base_ltv : {2000, 7500}, k_factor : {100},
     time_horizon_days : {30}]

TotalPushed == SumOver(OracleSymbols, [a \in OracleSymbols |-> Len(pushed[a])])

InitOracle ==
    /\ ContractsInit
    /\ pc = "idle"
    /\ op = "initialize"
    /\ args = [admin |-> OracleAdmin]
    /\ ret = <<"Ok", 0>>

NextOracle ==
    \/ \E caller \in OracleCallers, symbol \in OracleSymbols :
          /\ Len(oracleAssets) < MaxOracleAssetList
          /\ add_asset(caller, symbol)
    \/ \E asset \in OracleSymbols : get_price(asset)
    \/ \E asset \in OracleSymbols, price \in PushPrices \cup {0, -1} :
          /\ TotalPushed < MaxPushes
          /\ update_price("stranger", asset, price)
    \/ \E asset \in OracleSymbols, a \in SafeBorrowArgs :
          calculate_safe_borrow(asset, a.collateral_value, a.base_ltv,
                                a.k_factor, a.time_horizon_days)
    \/ \E caller \in OracleCallers, threshold \in Thresholds :
          set_staleness_threshold(caller, threshold)
    \/ now < MaxOracleTime /\ OracleAdvanceTime

SpecOracle == InitOracle /\ [][NextOracle]_vars

\* long runs of pushes for one asset: the number of pushes, the number of
\* times a pushed price differs from the one before, and the ledger time
MaxHistoryPushes == 32

MaxPriceChanges == 1

MaxHistoryTime == 1

HistoryAsset == "XLM"

HistoryPrices == {100, 110}

RECURSIVE PriceChanges(_)
\* the number of entries of a sequence that differ from their predecessor
PriceChanges(seq) ==
    IF Len(seq) < 2 THEN 0
    ELSE (IF seq[Len(seq)] # seq[Len(seq) - 1] THEN 1 ELSE 0)
            + PriceChanges(SubSeq(seq, 1, Len(seq) - 1))

NextOracleHistory ==
    \/ /\ oracleAssets = <<>>
       /\ add_asset(OracleAdmin, HistoryAsset)
    \/ \E price \in HistoryPrices :
          /\ Len(pushed[HistoryAsset]) < MaxHistoryPushes
          /\ PriceChanges(Append(pushed[HistoryAsset], price)) <= MaxPriceChanges
          /\ update_price("stranger", HistoryAsset, price)
    \/ \E base_ltv \in {2000, 7500} :
          calculate_safe_borrow(HistoryAsset, 1000, base_ltv, 100, 30)
    \/ now < MaxHistoryTime /\ OracleAdvanceTime

SpecOracleHistory == InitOracle /\ [][NextOracleHistory]_vars

\* C11: for a supported asset and collateral_value >= 0, the adapter's
\* calculate_safe_borrow returns a value that is >= 0 and at most
\* collateral_value * base_ltv / 10000: the volatility adjustment only lowers
\* the borrow limit.
C11_SafeBorrowWithinBaseLtv ==
    (pc = "return" /\ op = "calculate_safe_borrow" /\ ret[1] = "Ok"
        /\ args.collateral_value >= 0)
        => /\ ret[2] >= 0
           /\ ret[2] <= TDiv(args.collateral_value * args.base_ltv, 10000)

\* the last count entries of a sequence, in order
LastOf(seq, count) == SubSeq(seq, Len(seq) - count + 1, Len(seq))

\* C17: after any sequence of update_price calls for an asset, its
\* price_history holds exactly the last min(n, 30) successfully pushed prices
\* in push order, n being the number of successful pushes since the asset
\* was added; its length never exceeds 30 and the oldest entry is the one
\* evicted.
C17_HistoryIsLastThirty ==
    \A asset \in OracleSymbols :
        oracleVolatility[asset].present =>
            LET n == Len(pushed[asset])
                history == oracleVolatility[asset].price_history
            IN /\ Len(history) = Min(n, 30)
               /\ Len(history) <= 30
               /\ history = LastOf(pushed[asset], Min(n, 30))

\* C17 witness: more than 30 pushes, the first of them evicted and different
\* from the oldest price kept
C17_Witness ==
    /\ pc = "return" /\ op = "update_price" /\ ret[1] = "Ok"
    /\ Len(pushed[HistoryAsset]) > 30
    /\ Len(oracleVolatility[HistoryAsset].price_history) = 30
    /\ pushed[HistoryAsset][1] # oracleVolatility[HistoryAsset].price_history[1]

\* C18: after each successful update_price, volatility_7d is recomputed from
\* the last 7 prices if and only if the history then holds at least 7 prices,
\* and volatility_30d from the last 30 prices if and only if it holds at
\* least 30; until those counts are reached the field keeps its initial
\* value 0; last_updated is the current ledger time on every successful push.
C18_VolatilityRecomputed ==
    [][\A caller \in OracleCallers, asset \in OracleSymbols, price \in PushPrices :
          (update_price(caller, asset, price) /\ ret'[1] = "Ok") =>
              LET before == oracleVolatility[asset]
                  after == oracleVolatility'[asset]
                  history == after.price_history
              IN /\ after.volatility_7d =
                        IF Len(history) >= 7
                        THEN calculate_volatility(LastOf(history, 7), 7)
                        ELSE before.volatility_7d
                 /\ Len(history) < 7 => after.volatility_7d = 0
                 /\ after.volatility_30d =
                        IF Len(history) >= 30
                        THEN calculate_volatility(LastOf(history, 30), 30)
                        ELSE before.volatility_30d
                 /\ Len(history) < 30 => after.volatility_30d = 0
                 /\ after.last_updated = now]_vars

\* C18 witness: the push that fills the history to 30 prices, at a ledger
\* time past 0, the only price change lying outside the last 7 prices
C18_Witness ==
    /\ pc = "return" /\ op = "update_price" /\ ret[1] = "Ok"
    /\ now > 0
    /\ Len(pushed[HistoryAsset]) = 30
    /\ oracleVolatility[HistoryAsset].volatility_30d > 0
    /\ oracleVolatility[HistoryAsset].volatility_7d = 0
    /\ oracleVolatility[HistoryAsset].last_updated = now

\* the asset was added at some time: add_asset appends its symbol to the
\* list and nothing removes one
WasAdded(asset) == \E i \in 1..Len(oracleAssets) : oracleAssets[i] = asset

\* C20: get_price(asset) returns AssetNotSupported if the asset was never
\* added, InvalidPrice if it was added but no price was ever stored,
\* StalePrice if now - timestamp is strictly greater than the staleness
\* threshold, and otherwise (age <= threshold, equality included) the most
\* recently pushed price with its push timestamp.
C20_GetPriceOutcome ==
    [][\A asset \in OracleSymbols :
          get_price(asset) =>
              ret' = IF ~WasAdded(asset) THEN <<"AssetNotSupported", 0>>
                     ELSE IF ~lastPush[asset].present
                     THEN <<"InvalidPrice", 0>>
                     ELSE IF now - lastPush[asset].timestamp > stalenessThreshold
                     THEN <<"StalePrice", 0>>
                     ELSE <<"Ok", [price |-> lastPush[asset].price,
                                   timestamp |-> lastPush[asset].timestamp]>>]_vars

\* C20 witness: get_price returns a price whose age equals the threshold,
\* the second price pushed for the asset and different from the first
C20_Witness ==
    /\ pc = "return" /\ op = "get_price" /\ ret[1] = "Ok"
    /\ now - ret[2].timestamp = stalenessThreshold
    /\ Len(pushed[args.asset]) = 2
    /\ ret[2].price = pushed[args.asset][2]
    /\ ret[2].price # pushed[args.asset][1]

----------------------------------------------------------------------------
(* oracle-adapter: calculate_volatility as a function of its arguments     *)

\* the longest price history passed
MaxVolLen == 7

\* the period passed: update_price_history passes 7 and 30
VolPeriods == {7}

\* prices in the feed's units: the smallest one, an ordinary one, and one
\* that is 70000 times the smallest
VolPrices == {1, 100, 70000}

InitVolatility ==
    /\ ContractsInit
    /\ pc = "call"
    /\ op = "calculate_volatility"
    /\ \E period \in VolPeriods, n \in 1..MaxVolLen :
          /\ n >= period
          /\ args \in [prices : [1..n -> VolPrices], period : {period}]
    /\ ret = <<>>

\* the call returns; ret holds the u32 as limbs
EvalVolatility ==
    /\ pc = "call"
    /\ op = "calculate_volatility"
    /\ ret' = VolatilityLimbs(args.prices, args.period)
    /\ pc' = "return"
    /\ UNCHANGED <<op, args, now, policyVars, poolVars, oracleVars, extVars>>

NextVolatility == EvalVolatility

SpecVolatility == InitVolatility /\ [][NextVolatility]_vars

VolatilityReturned == pc = "return" /\ op = "calculate_volatility"

\* the return in basis points from price i of a window to the next one
SimpleReturn(window, i) ==
    TDiv((window[i + 1] - window[i]) * 10000, window[i])

\* the truncated mean of the returns of a window
MeanReturn(window) ==
    TDiv(SumOver(1..(Len(window) - 1),
                 [i \in 1..(Len(window) - 1) |-> SimpleReturn(window, i)]),
         Len(window) - 1)

RECURSIVE SquaredDeviations(_, _)
\* the sum of the squared deviations of returns 1 .. i of a window from the
\* mean of all of them, as limbs
SquaredDeviations(window, i) ==
    IF i = 0 THEN <<>>
    ELSE LET deviation == SimpleReturn(window, i) - MeanReturn(window)
             size == WFromInt(IF deviation < 0 THEN -deviation ELSE deviation)
         IN WAdd(SquaredDeviations(window, i - 1), WMul(size, size))

\* the truncated mean of the squared deviations
WindowVariance(window) ==
    WDivSmall(SquaredDeviations(window, Len(window) - 1), Len(window) - 1)

\* value = 19 * floor(sqrt(variance)), both as limbs
NineteenTimesFloorSqrt(value, variance) ==
    /\ WModSmall(value, 19) = 0
    /\ LET root == WDivSmall(value, 19)
           next == WAdd(root, <<1>>)
       IN /\ ~WLess(variance, WMul(root, root))
          /\ WLess(variance, WMul(next, next))

StoredPricesPositive ==
    \A asset \in OracleSymbols :
        /\ oraclePrices[asset].present => oraclePrices[asset].price > 0
        /\ \A i \in 1..Len(oracleVolatility[asset].price_history) :
              oracleVolatility[asset].price_history[i] > 0

\* C32 as stated: every stored price and every price_history entry is > 0;
\* every update_price with price <= 0 returns InvalidPrice and leaves the
\* stored price, the price history and the volatility values unchanged.
C32_InvalidPriceRejected ==
    [][/\ StoredPricesPositive'
       /\ \A asset \in OracleSymbols, price \in {0, -1} :
             update_price("stranger", asset, price)
                 => /\ ret' = <<"InvalidPrice", 0>>
                    /\ oraclePrices' = oraclePrices
                    /\ oracleVolatility' = oracleVolatility
    ]_vars

\* C32 amended: every stored price and every price_history entry is > 0;
\* update_price with price <= 0 returns InvalidPrice for a supported asset and
\* AssetNotSupported for an asset that was never added, and in both cases
\* leaves the stored price, the price history and the volatility values
\* unchanged.
C32_InvalidPriceRejectedIfSupported ==
    [][/\ StoredPricesPositive'
       /\ \A asset \in OracleSymbols, price \in {0, -1} :
             update_price("stranger", asset, price)
                 => /\ ret' = IF is_asset_supported(asset)
                              THEN <<"InvalidPrice", 0>>
                              ELSE <<"AssetNotSupported", 0>>
                    /\ oraclePrices' = oraclePrices
                    /\ oracleVolatility' = oracleVolatility
    ]_vars

\* C32 witness: a price <= 0 was rejected for an asset that keeps the price
\* and the history of an earlier push
C32_Witness ==
    /\ op = "update_price" /\ pc = "return"
    /\ ret = <<"InvalidPrice", 0>>
    /\ args.price <= 0
    /\ oraclePrices[args.asset].present
    /\ oraclePrices[args.asset].price > 0
    /\ Len(oracleVolatility[args.asset].price_history) > 0

----------------------------------------------------------------------------
(* risk-engine/src/volatility.rs: calculate_safe_borrow on the full i128   *)

\* 2^n: LimbBase is 2^15
WPow2(n) ==
    [i \in 1..((n \div 15) + 1) |->
        IF i = (n \div 15) + 1 THEN 2 ^ (n % 15) ELSE 0]

\* 2^127 and 2^128: an i128 lies in -2^127 .. 2^127 - 1
TwoTo127 == WPow2(127)

TwoTo128 == WPow2(128)

\* w % 2^128: 2^128 is 256 * LimbBase^8
WLow128(w) ==
    WNorm(<<Limb(w, 1), Limb(w, 2), Limb(w, 3), Limb(w, 4), Limb(w, 5),
            Limb(w, 6), Limb(w, 7), Limb(w, 8), Limb(w, 9) % 256>>)

\* an i128 as sign and magnitude; 0 is not negative
I128Of(negative, magnitude) ==
    [negative |-> negative /\ magnitude # <<>>, magnitude |-> magnitude]

\* the integer of that sign and magnitude fits an i128
FitsI128(negative, magnitude) ==
    IF negative THEN ~WLess(TwoTo127, magnitude)
    ELSE WLess(magnitude, TwoTo127)

\* the i128 that two's complement arithmetic without overflow checks leaves
\* for the integer of that sign and magnitude
WrapI128(negative, magnitude) ==
    LET m == WLow128(magnitude)
        bits == IF negative /\ m # <<>> THEN WSub(TwoTo128, m) ELSE m
    IN IF WLess(bits, TwoTo127) THEN I128Of(FALSE, bits)
       ELSE I128Of(TRUE, WSub(TwoTo128, bits))

\* `collateral_value * adjusted_ltv as i128 / 10000`: the product is not
\* checked, so when it leaves the i128 range a build with overflow checks
\* panics and a build without them goes on with the wrapped product
CalculateSafeBorrowOutcomes(collateral_value, adjusted_ltv) ==
    LET magnitude == WMul(collateral_value.magnitude, WFromInt(adjusted_ltv))
        negative == collateral_value.negative
        wrapped == WrapI128(negative, magnitude)
    IN IF FitsI128(negative, magnitude)
       THEN {<<"Ok", I128Of(negative, WDivSmall(magnitude, 10000))>>}
       ELSE {<<"Panic", I128Of(FALSE, <<>>)>>,
             <<"Ok", I128Of(wrapped.negative,
                            WDivSmall(wrapped.magnitude, 10000))>>}

\* collateral values around the largest ones whose product with an LTV fits
CollateralValues128 ==
    LET largest == WSub(TwoTo127, <<1>>)
        edges == {WDivSmall(largest, ltv) : ltv \in {3000, 7500, 10000}}
        magnitudes ==
            {<<>>, <<1000>>, WPow2(64), WPow2(100), WPow2(126), largest}
                \cup edges \cup {WAdd(e, <<1>>) : e \in edges}
    IN {I128Of(negative, m) : negative \in BOOLEAN, m \in magnitudes}

AdjustedLtvs == {0, 1, 3000, 7500, 10000}

InitSafeBorrow ==
    /\ ContractsInit
    /\ pc = "call"
    /\ op = "calculate_safe_borrow"
    /\ args \in [collateral_value : CollateralValues128,
                 adjusted_ltv : AdjustedLtvs]
    /\ ret = <<"Ok", I128Of(FALSE, <<>>)>>

EvalSafeBorrow ==
    /\ pc = "call"
    /\ op = "calculate_safe_borrow"
    /\ ret' \in CalculateSafeBorrowOutcomes(args.collateral_value,
                                            args.adjusted_ltv)
    /\ pc' = "return"
    /\ UNCHANGED <<op, args, now, policyVars, poolVars, oracleVars, extVars>>

NextSafeBorrow == EvalSafeBorrow

SpecSafeBorrow == InitSafeBorrow /\ [][NextSafeBorrow]_vars

\* the product collateral_value * adjusted_ltv of the call is outside the
\* i128 range
ProductExceedsI128 ==
    ~FitsI128(args.collateral_value.negative,
              WMul(args.collateral_value.magnitude,
                   WFromInt(args.adjusted_ltv)))

\* C33: whenever the intermediate product collateral_value * adjusted_ltv of
\* calculate_safe_borrow exceeds the signed 128-bit range, the call ends in
\* an error outcome and returns no number.
C33_OverflowEndsInError ==
    (pc = "return" /\ op = "calculate_safe_borrow" /\ ProductExceedsI128)
        => ret[1] # "Ok"

\* calls whose product stays inside the i128 range return the exact
\* collateral_value * adjusted_ltv / 10000
C33_InRangeIsExact ==
    (pc = "return" /\ op = "calculate_safe_borrow" /\ ~ProductExceedsI128)
        => /\ ret[1] = "Ok"
           /\ ret[2].negative = (args.collateral_value.negative
                                    /\ ret[2].magnitude # <<>>)
           /\ ret[2].magnitude =
                 WDiv(WMul(args.collateral_value.magnitude,
                           WFromInt(args.adjusted_ltv)), WFromInt(10000))

----------------------------------------------------------------------------
(* vantis-pool/src/lib.rs: withdraw, and the pool totals                   *)

\* C36: withdraw(user, asset, amount) with amount > 0 succeeds only if the
\* user's balance of the asset is >= amount and the health factor recomputed
\* with the reduced collateral is >= 10000; with a smaller balance it returns
\* InsufficientCollateral, with a lower health factor
\* WithdrawalWouldLiquidate, and in both error cases the user's collateral
\* balances and TotalDeposits(asset) are as before the call.
C36_WithdrawChecks ==
    [][\A user \in Users, asset \in Tokens, amount \in WithdrawAmounts :
         (withdraw(user, asset, amount) /\ amount > 0) =>
         LET balance == collateral[user][asset]
             reduced == [collateral[user] EXCEPT ![asset] = balance - amount]
             health == calculate_health_factor(user, reduced)
         IN /\ ret' = "Ok" => (balance >= amount /\ health >= 10000)
            /\ balance < amount => ret' = "InsufficientCollateral"
            /\ (balance >= amount /\ health < 10000)
                  => ret' = "WithdrawalWouldLiquidate"
            /\ ret' \in {"InsufficientCollateral", "WithdrawalWouldLiquidate"}
                  => /\ collateral' = collateral
                     /\ totalDeposits' = totalDeposits
    ]_vars

\* C36 witness: a withdrawal the balance covers was refused because of the
\* health factor it would leave
C36_Witness ==
    /\ op = "withdraw" /\ pc = "return"
    /\ ret = "WithdrawalWouldLiquidate"
    /\ collateral[args.user][args.asset] >= args.amount
    /\ StoredDebt(args.user) > 0

\* C37: in every reachable state of the pool PoolReserves >= 0 and
\* TotalBorrows >= 0, so the utilization
\* TotalBorrows * 10000 / (PoolReserves + TotalBorrows) that the interest-rate
\* model is given stays within 0..10000.
C37_PoolTotalsNonNegative ==
    /\ poolReserves >= 0
    /\ totalBorrows >= 0
    /\ poolReserves + totalBorrows # 0
          => LET utilization ==
                     TDiv(totalBorrows * 10000, poolReserves + totalBorrows)
             IN 0 <= utilization /\ utilization <= 10000

\* PoolReserves alone never goes below 0
C37_ReservesNonNegative == poolReserves >= 0

====
